---- MODULE Spec2Model ----
(***************************************************************************)
(* Write path of the Bolt API server (src/unnamed/part_004): the           *)
(* idempotency guard (preHandler / onSend hooks), the story, batch and     *)
(* dependency route handlers, blocked recomputation and the audit log.     *)
(*                                                                         *)
(* Every request occupies a slot and advances one database call at a time, *)
(* so that requests in different slots interleave exactly where the        *)
(* handlers await.  Tables that no modelled handler reads back (Project,   *)
(* AgentSession, AgentEvent, FileAsset, StoryNote, StoryLabel) are not     *)
(* part of the state.                                                      *)
(***************************************************************************)
EXTENDS Integers, Sequences, FiniteSets, TLC

\* ------------------------------------------------------------------ bounds
MaxAudit == 5        \* requests are admitted while the audit log is shorter
MaxBatchAudit == 1   \* the same, for batch requests
MaxBatch == 3        \* longest items list of a batch request
MaxDepId == 4        \* dependency rows are created while fewer ids were handed out
MaxRaceDepId == 2    \* the same, for overlapping dependency requests
MaxStoryAudit == 2   \* the same as MaxAudit, for story requests
MaxUnblockAudit == 3 \* the same, for overlapping add-dependency and move requests
MaxPairDepId == 3    \* the same as MaxDepId, for overlapping requests on one pair of stories
MaxProjectDepId == 2 \* the same as MaxDepId, for stories of two projects
MaxProjectAudit == 2 \* the same as MaxAudit, for stories of two projects
MaxRetryAudit == 3   \* the same as MaxAudit, for retried requests
MaxBatchRaceAudit == 2 \* the same as MaxAudit, for batches overlapping deletes
MaxLogAudit == 2       \* audit events before moves, labels and deletes stop arriving
MaxSprints == 3        \* sprints before sprint creates stop arriving
MaxSprintAudit == 2    \* audit events before sprint requests stop arriving
MaxAssignAudit == 2    \* audit events before sprint assignments stop arriving
MaxChainAudit == 2     \* audit events before moves along a chain stop arriving
MaxMeetAudit == 2      \* audit events before an add and a move stop arriving
MaxCycleAudit == 1     \* audit events before adds to a given graph stop arriving
MaxCloseAudit == 2     \* audit events before sprint patches, starts and closes stop arriving
MaxExpiryAudit == 2    \* audit events before keyed moves stop arriving while records age
MaxExpiries == 1       \* retention windows that go by
MaxKeyAudit == 3       \* audit events before requests sharing one key stop arriving
MaxRows == 3         \* rows a listed table can hold
MaxClock == 2        \* milliseconds the clock can advance
MaxLimit == 2        \* largest page size asked for that is within the cap

\* ------------------------------------------------------- program constants
MAX_BATCH_SIZE == 100
IDEMPOTENCY_TTL_MS == 172800000
DEFAULT_LIMIT == 50
MAX_LIMIT == 200

\* ---------------------------------------------------------------- universe
Stories == {"A", "B", "C"}
Missing == "Z"                      \* an id that names no story
Projects == {"p1", "p2"}
Sprints == {"s1", "s2"}
Statuses == {"waiting", "in_progress", "completed"}
Slots == {"r1", "r2"}
Keys == {"k1"}
NoKey == ""
Blank == "  "

VARIABLES
    story,      \* Story table: id -> row, life says whether the row exists
    deps,       \* StoryDependency table: set of rows [id, storyId, dependsOnStoryId]
    nextDepId,  \* ids already handed out to StoryDependency rows
    sprint,     \* Sprint table: id -> [project, status]
    idem,       \* IdempotencyRecord table, rows in insertion order
    audit,      \* AuditEvent table, rows in insertion order
    auditUp,    \* whether auditEvent.create succeeds
    clock,      \* Date.now(), in milliseconds
    table,      \* a listed table: id -> [life, ts], ts the column the list sorts by
    trav,       \* a client following nextCursor: its position and what it was sent
    projects,   \* Project table: the ids of the rows
    labels,     \* StoryLabel table: set of <<storyId, label>>
    pc,         \* slot -> where the request in it stands
    req,        \* slot -> the request
    loc,        \* slot -> the handler's local variables
    resp,       \* slot -> the reply (status, payload, x-idempotent-replay)
    snap,       \* slot -> the Story, StoryDependency, AuditEvent and StoryLabel tables
                \* when the request arrived
    applied     \* history: <<key, fingerprint>> of every keyed handler run that wrote

lists == <<clock, table, trav, projects, labels>>
db == <<story, deps, nextDepId, sprint, auditUp, lists>>
vars ==
    <<story, deps, nextDepId, sprint, auditUp, idem, audit, pc, req, loc, resp, snap, applied,
      clock, table, trav, projects, labels>>

\* ------------------------------------------------------------------ graphs
Succ(E, S) == S \cup {d.dependsOnStoryId : d \in {e \in E : e.storyId \in S}}
RECURSIVE Closure(_, _, _)
Closure(E, S, n) == IF n = 0 THEN S ELSE Closure(E, Succ(E, S), n - 1)
\* b is a or can be reached from a along the edges of E
Reaches(E, a, b) == b \in Closure(E, {a}, Cardinality(Stories))
Acyclic(E) == \A d \in E : ~Reaches(E, d.dependsOnStoryId, d.storyId)

\* ---------------------------------------------------------------- requests
NoItems == <<>>
NoBody == [status |-> "", dependsOnStoryId |-> "", blocked |-> "", priority |-> "",
           sprintId |-> "", projectId |-> "", items |-> NoItems,
           dry_run |-> FALSE, all_or_nothing |-> FALSE, label |-> "", name |-> "",
           storyIds |-> <<>>]
NoReq == [method |-> "", route |-> "", key |-> NoKey, id |-> "", depId |-> 0, label |-> "",
          force |-> "", body |-> NoBody]

R_MOVE == "/api/v1/stories/:id/move"
R_STORY == "/api/v1/stories/:id"
R_STORIES == "/api/v1/stories"
R_BATCH_MOVE == "/api/v1/stories/batch/move"
R_BATCH_PATCH == "/api/v1/stories/batch/patch"
R_DEPS == "/api/v1/stories/:id/dependencies"
R_DEP == "/api/v1/dependencies/:id"
R_PROJECT == "/api/v1/projects/:id"
R_SPRINTS == "/api/v1/projects/:id/sprints"
R_SPRINT == "/api/v1/sprints/:id"
R_SPRINT_START == "/api/v1/sprints/:id/start"
R_SPRINT_CLOSE == "/api/v1/sprints/:id/close"
R_ASSIGN == "/api/v1/sprints/:id/stories:assign"
R_LABELS == "/api/v1/stories/:id/labels"
R_LABEL == "/api/v1/stories/:id/labels/:label"

MoveReq(key, id, status) ==
    [NoReq EXCEPT !.method = "POST", !.route = R_MOVE, !.key = key, !.id = id,
                  !.body = [NoBody EXCEPT !.status = status]]

NoItem == [id |-> "", status |-> "", priority |-> "", blocked |-> "", sprintId |-> ""]
MoveItem(id, status) == [NoItem EXCEPT !.id = id, !.status = status]
PatchItem(id, priority, blocked, sprintId) ==
    [NoItem EXCEPT !.id = id, !.priority = priority, !.blocked = blocked, !.sprintId = sprintId]

PatchReq(key, id, status, blocked, priority, sprintId) ==
    [NoReq EXCEPT !.method = "PATCH", !.route = R_STORY, !.key = key, !.id = id,
                  !.body = [NoBody EXCEPT !.status = status, !.blocked = blocked,
                                          !.priority = priority, !.sprintId = sprintId]]
CreateReq(key, projectId, status, blocked, sprintId) ==
    [NoReq EXCEPT !.method = "POST", !.route = R_STORIES, !.key = key,
                  !.body = [NoBody EXCEPT !.projectId = projectId, !.status = status,
                                          !.blocked = blocked, !.sprintId = sprintId]]
DeleteReq(id) == [NoReq EXCEPT !.method = "DELETE", !.route = R_STORY, !.id = id]
AddDepReq(key, id, dependsOnStoryId) ==
    [NoReq EXCEPT !.method = "POST", !.route = R_DEPS, !.key = key, !.id = id,
                  !.body = [NoBody EXCEPT !.dependsOnStoryId = dependsOnStoryId]]
RemoveDepReq(depId) == [NoReq EXCEPT !.method = "DELETE", !.route = R_DEP, !.depId = depId]
DeleteProjectReq(id, force) ==
    [NoReq EXCEPT !.method = "DELETE", !.route = R_PROJECT, !.id = id, !.force = force]
CreateSprintReq(key, id, name, status) ==
    [NoReq EXCEPT !.method = "POST", !.route = R_SPRINTS, !.key = key, !.id = id,
                  !.body = [NoBody EXCEPT !.name = name, !.status = status]]
PatchSprintReq(key, id, status) ==
    [NoReq EXCEPT !.method = "PATCH", !.route = R_SPRINT, !.key = key, !.id = id,
                  !.body = [NoBody EXCEPT !.status = status]]
StartSprintReq(key, id) ==
    [NoReq EXCEPT !.method = "POST", !.route = R_SPRINT_START, !.key = key, !.id = id]
AssignReq(key, id, storyIds, dry_run) ==
    [NoReq EXCEPT !.method = "POST", !.route = R_ASSIGN, !.key = key, !.id = id,
                  !.body = [NoBody EXCEPT !.storyIds = storyIds, !.dry_run = dry_run]]
AddLabelReq(key, id, label) ==
    [NoReq EXCEPT !.method = "POST", !.route = R_LABELS, !.key = key, !.id = id,
                  !.body = [NoBody EXCEPT !.label = label]]
RemoveLabelReq(id, label) ==
    [NoReq EXCEPT !.method = "DELETE", !.route = R_LABEL, !.id = id, !.label = label]
BatchReq(key, route, items, dry_run, all_or_nothing) ==
    [NoReq EXCEPT !.method = "POST", !.route = route, !.key = key,
                  !.body = [NoBody EXCEPT !.items = items, !.dry_run = dry_run,
                                          !.all_or_nothing = all_or_nothing]]

\* ------------------------------------------------------------------ replies
Data(d) == [shape |-> "data", code |-> "", message |-> "", data |-> d]
ErrorString(msg) == [shape |-> "errorString", code |-> "", message |-> msg, data |-> <<>>]
Envelope(code, msg, details) == [shape |-> "envelope", code |-> code, message |-> msg, data |-> details]

\* JSON text of a reply object, and back
Stringify(b) == <<b.shape, b.code, b.message, b.data>>
Parse(s) == [shape |-> s[1], code |-> s[2], message |-> s[3], data |-> s[4]]

NoResp == [status |-> 0, payload |-> Stringify(Data(<<>>)), replay |-> FALSE]
Reply(status, body) == [status |-> status, payload |-> Stringify(body), replay |-> FALSE]

codeFromStatus(statusCode) ==
    IF statusCode = 400 THEN "BAD_REQUEST"
    ELSE IF statusCode = 401 THEN "UNAUTHORIZED"
    ELSE IF statusCode = 404 THEN "NOT_FOUND"
    ELSE IF statusCode = 409 THEN "CONFLICT"
    ELSE IF statusCode = 413 THEN "PAYLOAD_TOO_LARGE"
    ELSE IF statusCode = 415 THEN "UNSUPPORTED_MEDIA_TYPE"
    ELSE IF statusCode = 429 THEN "RATE_LIMITED"
    ELSE IF statusCode = 503 THEN "SERVICE_UNAVAILABLE"
    ELSE IF statusCode >= 500 THEN "INTERNAL_ERROR"
    ELSE "BAD_REQUEST"

\* code = "" stands for an omitted code argument
errorPayload(statusCode, message, code, details) ==
    Envelope(IF code = "" THEN codeFromStatus(statusCode) ELSE code, message, details)

\* variant of normalizeError: the reply goes out as the handler wrote it
normalizeNone(statusCode, outgoing) == outgoing

\* onSend's rewrite of an error reply into the {error:{code,message}} envelope
normalizeError(statusCode, outgoing) ==
    IF statusCode >= 400 /\ outgoing.shape = "errorString"
    THEN errorPayload(statusCode, outgoing.message, "", <<>>)
    ELSE outgoing

\* sha256 over the key-sorted JSON of method, route, params, body: equal exactly
\* when those four are equal
idempotencyFingerprint(q) == <<q.method, q.route, q.id, q.depId, q.body>>

\* ------------------------------------------------------------------- tables
NoRow == [life |-> "new", project |-> "", status |-> "", blocked |-> FALSE,
          priority |-> "", sprintId |-> ""]
Row(project, status) == [life |-> "live", project |-> project, status |-> status,
                         blocked |-> FALSE, priority |-> "med", sprintId |-> ""]
Gone == [NoRow EXCEPT !.life = "gone"]

Live(s) == s \in Stories /\ story[s].life = "live"

\* a row as a reply carries it
RowData(id, row) == <<id, row.status, row.blocked, row.priority, row.sprintId>>

Dep(n, s, t) == [id |-> n, storyId |-> s, dependsOnStoryId |-> t]

AuditRow(eventType, entityId) == [eventType |-> eventType, entityId |-> entityId]

\* variant of blockedValue that follows dependencies of dependencies
blockedValueDeep(s) ==
    \E d \in deps : /\ d.storyId = s
                    /\ \E t \in Stories : /\ Reaches(deps, d.dependsOnStoryId, t)
                                          /\ story[t].life = "live"
                                          /\ story[t].status # "completed"

\* the value refreshBlocked computes: some dependency of s targets a story
\* that is not completed
blockedValue(s) ==
    \E d \in deps : d.storyId = s /\ story[d.dependsOnStoryId].status # "completed"

\* ------------------------------------------------------------------- locals
NoLoc == [meta |-> FALSE, existing |-> "", row |-> <<>>, queue |-> <<>>, visited |-> {},
          dependents |-> {}, tasks |-> {}, failed |-> FALSE, results |-> <<>>, idx |-> 0]

NoSnap == <<>>

Task(s) == [id |-> s, phase |-> "read", val |-> FALSE]

Idle == \A r \in Slots : pc[r] = "idle"

\* ---------------------------------------------------------------- pipeline
Arrive(r, q) ==
    /\ pc[r] = "idle"
    /\ pc' = [pc EXCEPT ![r] = "preHandler"]
    /\ req' = [req EXCEPT ![r] = q]
    /\ loc' = [loc EXCEPT ![r] = NoLoc]
    /\ resp' = [resp EXCEPT ![r] = NoResp]
    /\ snap' = [snap EXCEPT ![r] = <<story, deps, audit, labels>>]
    /\ UNCHANGED <<db, idem, audit, applied>>

\* the handler's first program point, by route
Entry(q) ==
    IF q.route = R_MOVE THEN "mv_find"
    ELSE IF q.route = R_STORY /\ q.method = "PATCH" THEN "ps_find"
    ELSE IF q.route = R_STORY /\ q.method = "DELETE" THEN "ds_find"
    ELSE IF q.route = R_STORIES THEN "cs_project"
    ELSE IF q.route = R_DEPS THEN "ad_find"
    ELSE IF q.route = R_DEP THEN "rd_find"
    ELSE IF q.route = R_BATCH_MOVE THEN "bm_start"
    ELSE IF q.route = R_BATCH_PATCH THEN "bp_start"
    ELSE IF q.route = R_PROJECT THEN "dp_find"
    ELSE IF q.route = R_SPRINTS THEN "sc_project"
    ELSE IF q.route = R_SPRINT THEN "sp_find"
    ELSE IF q.route = R_SPRINT_START THEN "ss_find"
    ELSE IF q.route = R_SPRINT_CLOSE THEN "sx_find"
    ELSE IF q.route = R_ASSIGN THEN "as_sprint"
    ELSE IF q.route = R_LABELS THEN "al_find"
    ELSE IF q.route = R_LABEL THEN "rl_find"
    ELSE "done"

\* keyHeader.trim(), for headers that are absent, all spaces, or without spaces
trim(keyHeader) == IF keyHeader = Blank THEN "" ELSE keyHeader

\* variant of Guarded: the method is not looked at
GuardedAnyMethod(q) == trim(q.key) # ""

\* variant of Storable: the status is not looked at
StorableAlways(meta, statusCode) == meta

\* the gate of the preHandler hook: POST or PATCH, with a key left after trim
Guarded(q) == q.method \in {"POST", "PATCH"} /\ trim(q.key) # ""

\* variant of Matches: records are looked up by key alone
MatchesKey(rec, q) == rec.key = q.key

\* the unique index key_method_route
Matches(rec, q) == rec.key = q.key /\ rec.method = q.method /\ rec.route = q.route

\* variant of Existing: a record past its expiresAt is not found
ExistingFresh(q) == {i \in 1..Len(idem) : Matches(idem[i], q) /\ idem[i].expiresAt >= clock}

\* variant of Existing: a lookup that finds no record
ExistingNone(q) == {}

\* idempotencyRecord.findUnique by key_method_route: positions of the match
Existing(q) == {i \in 1..Len(idem) : Matches(idem[i], q)}

\* variant of SamePayload: the fingerprints are not compared
AnyPayload(existing, fingerprint) == TRUE

\* the record found was stored for this very payload
SamePayload(existing, fingerprint) == existing.fingerprint = fingerprint

\* preHandler hook: the idempotency lookup
PreHandler(r) ==
    /\ pc[r] = "preHandler"
    /\ LET q == req[r]
           fingerprint == idempotencyFingerprint(q)
       IN IF ~Guarded(q)
          THEN /\ pc' = [pc EXCEPT ![r] = Entry(q)]
               /\ UNCHANGED <<loc, resp>>
          ELSE IF Existing(q) # {}
          THEN LET existing == idem[CHOOSE i \in Existing(q) : \A j \in Existing(q) : i <= j]
               IN /\ resp' = [resp EXCEPT ![r] =
                        IF ~SamePayload(existing, fingerprint)
                        THEN Reply(409, errorPayload(409,
                                 "idempotency key reused with a different request payload",
                                 "IDEMPOTENCY_CONFLICT", <<>>))
                        ELSE [status |-> existing.statusCode,
                              payload |-> existing.responseBody,
                              replay |-> TRUE]]
                  /\ pc' = [pc EXCEPT ![r] = "onSend"]
                  /\ UNCHANGED loc
          ELSE /\ loc' = [loc EXCEPT ![r].meta = TRUE]
               /\ pc' = [pc EXCEPT ![r] = Entry(q)]
               /\ UNCHANGED resp
    /\ UNCHANGED <<db, idem, audit, req, snap, applied>>

\* whether onSend stores a record for a reply with this status
Storable(meta, statusCode) == meta /\ statusCode < 500

\* variant of idempotencyCreate: every create adds a row
idempotencyCreateAlways(rec) == Append(idem, rec)

\* idempotencyRecord.create under the unique index on (key, method, route):
\* a second row for the same triple is refused (P2002) and the refusal swallowed
idempotencyCreate(rec) ==
    IF \E i \in 1..Len(idem) : Matches(idem[i], rec) THEN idem ELSE Append(idem, rec)

\* onSend hook: normalise an error reply, store the record, send
OnSend(r) ==
    /\ pc[r] = "onSend"
    /\ LET outgoing == normalizeError(resp[r].status, Parse(resp[r].payload))
           bodyString == Stringify(outgoing)
           q == req[r]
       IN /\ idem' = IF Storable(loc[r].meta, resp[r].status)
                     THEN idempotencyCreate([key |-> q.key, method |-> q.method,
                              route |-> q.route,
                              fingerprint |-> idempotencyFingerprint(q),
                              statusCode |-> resp[r].status,
                              responseBody |-> bodyString,
                              expiresAt |-> clock + IDEMPOTENCY_TTL_MS])
                     ELSE idem
          /\ resp' = [resp EXCEPT ![r].payload = bodyString]
    /\ pc' = [pc EXCEPT ![r] = "done"]
    /\ UNCHANGED <<db, audit, req, loc, snap, applied>>

\* the reply has been delivered; the slot takes the next request
Finish(r) ==
    /\ pc[r] = "done"
    /\ loc[r].tasks = {}
    /\ pc' = [pc EXCEPT ![r] = "idle"]
    /\ req' = [req EXCEPT ![r] = NoReq]
    /\ loc' = [loc EXCEPT ![r] = NoLoc]
    /\ resp' = [resp EXCEPT ![r] = NoResp]
    /\ snap' = [snap EXCEPT ![r] = NoSnap]
    /\ UNCHANGED <<db, idem, audit, applied>>

\* the handler replies: control passes to onSend
Send(r, status, body) ==
    /\ resp' = [resp EXCEPT ![r] = Reply(status, body)]
    /\ pc' = [pc EXCEPT ![r] = "onSend"]

\* setErrorHandler: a thrown error without statusCode becomes a 500 envelope
Throw(r) == Send(r, 500, errorPayload(500, "internal error", "", <<>>))

\* variant of logAudit: the event is written whatever auditEvent.create does
logAuditAlways(eventType, entityId) == Append(audit, AuditRow(eventType, entityId))

\* logAudit: auditEvent.create inside try/catch; a failure is logged as a
\* warning and nothing is thrown
logAudit(eventType, entityId) ==
    IF auditUp THEN Append(audit, AuditRow(eventType, entityId)) ELSE audit

\* history of handler runs that reached their write, for keyed requests
Record(q) == IF Guarded(q) THEN Append(applied, <<q.key, idempotencyFingerprint(q)>>) ELSE applied

\* -------------------------------------------------------- refreshBlocked
\* each call is a read of the story's dependencies with their targets' status
\* followed by a write of the flag; calls started together (Promise.all) run
\* as independent tasks
refreshBlockedRead(r) ==
    /\ \E t \in loc[r].tasks :
          /\ t.phase = "read"
          /\ loc' = [loc EXCEPT ![r].tasks = (@ \ {t}) \cup
                        {[id |-> t.id, phase |-> "write", val |-> blockedValue(t.id)]}]
    /\ UNCHANGED <<db, idem, audit, pc, req, resp, snap, applied>>

refreshBlockedWrite(r) ==
    /\ \E t \in loc[r].tasks :
          /\ t.phase = "write"
          /\ IF Live(t.id)
             THEN /\ story' = [story EXCEPT ![t.id].blocked = t.val]
                  /\ loc' = [loc EXCEPT ![r].tasks = @ \ {t}]
             ELSE /\ story' = story
                  /\ loc' = [loc EXCEPT ![r].tasks = @ \ {t}, ![r].failed = TRUE]
    /\ UNCHANGED <<deps, nextDepId, sprint, auditUp, lists, idem, audit, pc, req, resp, snap, applied>>

\* variant of Dependents: every story from which s can be reached, s included
DependentsDeep(s) == {t \in Stories : Reaches(deps, t, s)}

\* refreshBlockedForDependents: the stories with an edge to s
Dependents(s) == {d.storyId : d \in {e \in deps : e.dependsOnStoryId = s}}

\* ------------------------------------------- POST /api/v1/stories/:id/move
MoveFind(r) ==
    /\ pc[r] = "mv_find"
    /\ IF Live(req[r].id)
       THEN /\ loc' = [loc EXCEPT ![r].existing = story[req[r].id].status]
            /\ pc' = [pc EXCEPT ![r] = "mv_update"]
            /\ UNCHANGED resp
       ELSE /\ Send(r, 404, ErrorString("story not found"))
            /\ UNCHANGED loc
    /\ UNCHANGED <<db, idem, audit, req, snap, applied>>

MoveUpdate(r) ==
    /\ pc[r] = "mv_update"
    /\ IF Live(req[r].id)
       THEN /\ story' = [story EXCEPT ![req[r].id].status = req[r].body.status]
            /\ loc' = [loc EXCEPT ![r].row = RowData(req[r].id, story'[req[r].id])]
            /\ applied' = Record(req[r])
            /\ pc' = [pc EXCEPT ![r] = "mv_dependents"]
            /\ UNCHANGED resp
       ELSE /\ Throw(r)
            /\ UNCHANGED <<story, applied, loc>>
    /\ UNCHANGED <<deps, nextDepId, sprint, auditUp, lists, idem, audit, req, snap>>

MoveDependents(r) ==
    /\ pc[r] = "mv_dependents"
    /\ loc' = [loc EXCEPT ![r].tasks = {Task(s) : s \in Dependents(req[r].id)}]
    /\ pc' = [pc EXCEPT ![r] = "mv_audit"]
    /\ UNCHANGED <<db, idem, audit, req, resp, snap, applied>>

MoveAudit(r) ==
    /\ pc[r] = "mv_audit"
    /\ loc[r].tasks = {}
    /\ IF loc[r].failed
       THEN /\ Throw(r)
            /\ UNCHANGED audit
       ELSE /\ audit' = logAudit("story.moved", req[r].id)
            /\ Send(r, 200, Data(loc[r].row))
    /\ UNCHANGED <<db, idem, req, loc, snap, applied>>

Move(r) == MoveFind(r) \/ MoveUpdate(r) \/ MoveDependents(r) \/ MoveAudit(r)

\* variant of sprintRefusal: the status of the sprint is not looked at
sprintRefusalOpen(sprintId, projectId) ==
    IF sprintId \notin DOMAIN sprint THEN 404
    ELSE IF sprint[sprintId].project # projectId THEN 400
    ELSE 0

\* the sprint checks of story create and story patch: 0 when the sprint may
\* take a story of this project, otherwise the status of the refusal
sprintRefusal(sprintId, projectId) ==
    IF sprintId \notin DOMAIN sprint THEN 404
    ELSE IF sprint[sprintId].project # projectId THEN 400
    ELSE IF sprint[sprintId].status = "closed" THEN 409
    ELSE 0

sprintRefusalText(status, closedText) ==
    IF status = 404 THEN "sprint not found"
    ELSE IF status = 400 THEN "sprint must belong to the same project"
    ELSE closedText

\* ----------------------------------------------- PATCH /api/v1/stories/:id
PatchFind(r) ==
    /\ pc[r] = "ps_find"
    /\ IF Live(req[r].id)
       THEN /\ loc' = [loc EXCEPT ![r].existing = story[req[r].id].project]
            /\ pc' = [pc EXCEPT ![r] =
                        IF req[r].body.sprintId \in {"", "null"} THEN "ps_update" ELSE "ps_sprint"]
            /\ UNCHANGED resp
       ELSE /\ Send(r, 404, ErrorString("story not found"))
            /\ UNCHANGED loc
    /\ UNCHANGED <<db, idem, audit, req, snap, applied>>

PatchSprint(r) ==
    /\ pc[r] = "ps_sprint"
    /\ LET refusal == sprintRefusal(req[r].body.sprintId, loc[r].existing)
       IN IF refusal = 0
          THEN /\ pc' = [pc EXCEPT ![r] = "ps_update"]
               /\ UNCHANGED resp
          ELSE Send(r, refusal, ErrorString(sprintRefusalText(refusal,
                                    "cannot move story into closed sprint")))
    /\ UNCHANGED <<db, idem, audit, req, loc, snap, applied>>

\* story.update data of the patch handler: an absent field ("") leaves the
\* column alone, sprintId null unassigns
patchData(row, b) ==
    [row EXCEPT !.status = IF b.status = "" THEN @ ELSE b.status,
                !.priority = IF b.priority = "" THEN @ ELSE b.priority,
                !.blocked = IF b.blocked = "" THEN @ ELSE b.blocked = "true",
                !.sprintId = IF b.sprintId = "" THEN @
                             ELSE IF b.sprintId = "null" THEN "" ELSE b.sprintId]

PatchUpdate(r) ==
    /\ pc[r] = "ps_update"
    /\ IF Live(req[r].id)
       THEN /\ story' = [story EXCEPT ![req[r].id] = patchData(@, req[r].body)]
            /\ loc' = [loc EXCEPT ![r].row = RowData(req[r].id, story'[req[r].id])]
            /\ applied' = Record(req[r])
            /\ pc' = [pc EXCEPT ![r] = "ps_audit"]
            /\ UNCHANGED resp
       ELSE /\ Throw(r)
            /\ UNCHANGED <<story, applied, loc>>
    /\ UNCHANGED <<deps, nextDepId, sprint, auditUp, lists, idem, audit, req, snap>>

PatchAudit(r) ==
    /\ pc[r] = "ps_audit"
    /\ audit' = logAudit("story.updated", req[r].id)
    /\ Send(r, 200, Data(loc[r].row))
    /\ UNCHANGED <<db, idem, req, loc, snap, applied>>

Patch(r) == PatchFind(r) \/ PatchSprint(r) \/ PatchUpdate(r) \/ PatchAudit(r)

\* --------------------------------------------------- POST /api/v1/stories
StoryOrder == <<"A", "B", "C">>
Unused == {i \in 1..Len(StoryOrder) : story[StoryOrder[i]].life = "new"}
\* the id story.create gives the new row: one no row ever had
NewStoryId == StoryOrder[CHOOSE i \in Unused : \A j \in Unused : i <= j]

CreateProject(r) ==
    /\ pc[r] = "cs_project"
    /\ IF req[r].body.projectId \in projects
       THEN /\ pc' = [pc EXCEPT ![r] =
                        IF req[r].body.sprintId = "" THEN "cs_create" ELSE "cs_sprint"]
            /\ UNCHANGED resp
       ELSE Send(r, 404, ErrorString("project not found"))
    /\ UNCHANGED <<db, idem, audit, req, loc, snap, applied>>

CreateSprint(r) ==
    /\ pc[r] = "cs_sprint"
    /\ LET refusal == sprintRefusal(req[r].body.sprintId, req[r].body.projectId)
       IN IF refusal = 0
          THEN /\ pc' = [pc EXCEPT ![r] = "cs_create"]
               /\ UNCHANGED resp
          ELSE Send(r, refusal, ErrorString(sprintRefusalText(refusal,
                                    "cannot add story to closed sprint")))
    /\ UNCHANGED <<db, idem, audit, req, loc, snap, applied>>

\* story.create data: status defaults to waiting, blocked to the payload's
\* value or false
createData(b) ==
    [life |-> "live", project |-> b.projectId,
     status |-> IF b.status = "" THEN "waiting" ELSE b.status,
     blocked |-> IF b.blocked = "" THEN FALSE ELSE b.blocked = "true",
     priority |-> IF b.priority = "" THEN "med" ELSE b.priority,
     sprintId |-> b.sprintId]

CreateStory(r) ==
    /\ pc[r] = "cs_create"
    /\ Unused # {}
    /\ story' = [story EXCEPT ![NewStoryId] = createData(req[r].body)]
    /\ loc' = [loc EXCEPT ![r].row = RowData(NewStoryId, story'[NewStoryId])]
    /\ applied' = Record(req[r])
    /\ pc' = [pc EXCEPT ![r] = "cs_audit"]
    /\ UNCHANGED <<deps, nextDepId, sprint, auditUp, lists, idem, audit, req, resp, snap>>

CreateAudit(r) ==
    /\ pc[r] = "cs_audit"
    /\ audit' = logAudit("story.created", loc[r].row[1])
    /\ Send(r, 201, Data(loc[r].row))
    /\ UNCHANGED <<db, idem, req, loc, snap, applied>>

Create(r) == CreateProject(r) \/ CreateSprint(r) \/ CreateStory(r) \/ CreateAudit(r)

\* ---------------------------------------------- DELETE /api/v1/stories/:id
DeleteFind(r) ==
    /\ pc[r] = "ds_find"
    /\ IF Live(req[r].id)
       THEN /\ pc' = [pc EXCEPT ![r] = "ds_dependents"]
            /\ UNCHANGED resp
       ELSE Send(r, 404, ErrorString("story not found"))
    /\ UNCHANGED <<db, idem, audit, req, loc, snap, applied>>

DeleteDependents(r) ==
    /\ pc[r] = "ds_dependents"
    /\ loc' = [loc EXCEPT ![r].dependents = Dependents(req[r].id)]
    /\ pc' = [pc EXCEPT ![r] = "ds_delete"]
    /\ UNCHANGED <<db, idem, audit, req, resp, snap, applied>>

\* variant of cascade: only the edges the story owns go with it
cascadeOwn(s) == {d \in deps : d.storyId # s}

\* story.delete: the row goes, and with it (ON DELETE CASCADE) every
\* dependency edge that has it at either end
cascade(s) == {d \in deps : d.storyId # s /\ d.dependsOnStoryId # s}
\* and (ON DELETE CASCADE) every label of the story
cascadeLabels(S) == {l \in labels : l[1] \notin S}

DeleteStory(r) ==
    /\ pc[r] = "ds_delete"
    /\ IF Live(req[r].id)
       THEN /\ story' = [story EXCEPT ![req[r].id] = Gone]
            /\ deps' = cascade(req[r].id)
            /\ labels' = cascadeLabels({req[r].id})
            /\ loc' = [loc EXCEPT ![r].tasks = {Task(s) : s \in loc[r].dependents}]
            /\ pc' = [pc EXCEPT ![r] = "ds_audit"]
            /\ UNCHANGED resp
       ELSE /\ Throw(r)
            /\ UNCHANGED <<story, deps, labels, loc>>
    /\ UNCHANGED <<nextDepId, sprint, auditUp, clock, table, trav, projects, idem, audit, req,
                   snap, applied>>

DeleteAudit(r) ==
    /\ pc[r] = "ds_audit"
    /\ loc[r].tasks = {}
    /\ IF loc[r].failed
       THEN /\ Throw(r)
            /\ UNCHANGED audit
       ELSE /\ audit' = logAudit("story.deleted", req[r].id)
            /\ Send(r, 200, Data(<<req[r].id>>))
    /\ UNCHANGED <<db, idem, req, loc, snap, applied>>

Delete(r) == DeleteFind(r) \/ DeleteDependents(r) \/ DeleteStory(r) \/ DeleteAudit(r)

\* ------------------------------- POST /api/v1/stories/:id/dependencies
RECURSIVE targetsOf(_)
\* the dependsOnStoryId of the rows of E, in row order
targetsOf(E) ==
    IF E = {} THEN <<>>
    ELSE LET d == CHOOSE x \in E : \A y \in E : x.id <= y.id
         IN <<d.dependsOnStoryId>> \o targetsOf(E \ {d})

AddDepFind(r) ==
    /\ pc[r] = "ad_find"
    /\ IF ~Live(req[r].id)
       THEN /\ Send(r, 404, ErrorString("story not found"))
            /\ UNCHANGED loc
       ELSE IF req[r].body.dependsOnStoryId = ""
       THEN /\ Send(r, 400, ErrorString("dependsOnStoryId is required"))
            /\ UNCHANGED loc
       ELSE IF req[r].body.dependsOnStoryId = req[r].id
       THEN /\ Send(r, 400, ErrorString("story cannot depend on itself"))
            /\ UNCHANGED loc
       ELSE /\ loc' = [loc EXCEPT ![r].existing = story[req[r].id].project]
            /\ pc' = [pc EXCEPT ![r] = "ad_target"]
            /\ UNCHANGED resp
    /\ UNCHANGED <<db, idem, audit, req, snap, applied>>

\* variant of SameProject: stories of any two projects pass
SameProjectAny(dependencyTarget, projectId) == TRUE

\* dependencyTarget.projectId === story.projectId
SameProject(dependencyTarget, projectId) == story[dependencyTarget].project = projectId

AddDepTarget(r) ==
    /\ pc[r] = "ad_target"
    /\ LET t == req[r].body.dependsOnStoryId
       IN IF ~Live(t)
          THEN /\ Send(r, 404, ErrorString("dependsOn story not found"))
               /\ UNCHANGED loc
          ELSE IF ~SameProject(t, loc[r].existing)
          THEN /\ Send(r, 400, ErrorString("dependencies must be within the same project"))
               /\ UNCHANGED loc
          ELSE /\ loc' = [loc EXCEPT ![r].queue = <<t>>, ![r].visited = {}]
               /\ pc' = [pc EXCEPT ![r] = "ad_cycle"]
               /\ UNCHANGED resp
    /\ UNCHANGED <<db, idem, audit, req, snap, applied>>

\* variant of Neighbours: the edges are followed against their direction
NeighboursReversed(current) ==
    targetsOf({Dep(d.id, d.dependsOnStoryId, d.storyId) : d \in {e \in deps : e.dependsOnStoryId = current}})

\* storyDependency.findMany({storyId: current}): the stories current depends on
Neighbours(current) == targetsOf({d \in deps : d.storyId = current})

\* variant of Seen: no story counts as visited
SeenNever(visited, current) == FALSE

\* visited.has(current)
Seen(visited, current) == current \in visited

\* one turn of the loop of createsDependencyCycle(storyId, dependsOnStoryId)
createsDependencyCycle(r) ==
    /\ pc[r] = "ad_cycle"
    /\ LET queue == loc[r].queue
       IN IF queue = <<>>
          THEN /\ pc' = [pc EXCEPT ![r] = "ad_create"]
               /\ UNCHANGED <<loc, resp>>
          ELSE LET current == Head(queue)
               IN IF current = req[r].id
                  THEN /\ Send(r, 400, ErrorString("dependency would create a cycle"))
                       /\ UNCHANGED loc
                  ELSE IF Seen(loc[r].visited, current)
                  THEN /\ loc' = [loc EXCEPT ![r].queue = Tail(queue)]
                       /\ UNCHANGED <<pc, resp>>
                  ELSE /\ loc' = [loc EXCEPT
                             ![r].queue = Tail(queue) \o Neighbours(current),
                             ![r].visited = @ \cup {current}]
                       /\ UNCHANGED <<pc, resp>>
    /\ UNCHANGED <<db, idem, audit, req, snap, applied>>

\* the unique index on (storyId, dependsOnStoryId)
Duplicate(s, t) == \E d \in deps : d.storyId = s /\ d.dependsOnStoryId = t

AddDepCreate(r) ==
    /\ pc[r] = "ad_create"
    /\ LET s == req[r].id
           t == req[r].body.dependsOnStoryId
       IN IF Duplicate(s, t)
          THEN /\ Send(r, 409, ErrorString("dependency already exists"))
               /\ UNCHANGED <<deps, nextDepId, loc, applied>>
          ELSE IF ~(Live(s) /\ Live(t))
          THEN /\ Throw(r)
               /\ UNCHANGED <<deps, nextDepId, loc, applied>>
          ELSE /\ deps' = deps \cup {Dep(nextDepId, s, t)}
               /\ nextDepId' = nextDepId + 1
               /\ loc' = [loc EXCEPT ![r].row = <<nextDepId, s, t>>, ![r].tasks = {Task(s)}]
               /\ applied' = Record(req[r])
               /\ pc' = [pc EXCEPT ![r] = "ad_audit"]
               /\ UNCHANGED resp
    /\ UNCHANGED <<story, sprint, auditUp, lists, idem, audit, req, snap>>

AddDepAudit(r) ==
    /\ pc[r] = "ad_audit"
    /\ loc[r].tasks = {}
    /\ IF loc[r].failed
       THEN /\ Throw(r)
            /\ UNCHANGED audit
       ELSE /\ audit' = logAudit("dependency.created", loc[r].row[1])
            /\ Send(r, 201, Data(loc[r].row))
    /\ UNCHANGED <<db, idem, req, loc, snap, applied>>

AddDep(r) ==
    AddDepFind(r) \/ AddDepTarget(r) \/ createsDependencyCycle(r) \/ AddDepCreate(r) \/ AddDepAudit(r)

\* -------------------------------------------- DELETE /api/v1/dependencies/:id
RemoveDepFind(r) ==
    /\ pc[r] = "rd_find"
    /\ IF \E d \in deps : d.id = req[r].depId
       THEN /\ loc' = [loc EXCEPT ![r].existing =
                         (CHOOSE d \in deps : d.id = req[r].depId).storyId]
            /\ pc' = [pc EXCEPT ![r] = "rd_delete"]
            /\ UNCHANGED resp
       ELSE /\ Send(r, 404, ErrorString("dependency not found"))
            /\ UNCHANGED loc
    /\ UNCHANGED <<db, idem, audit, req, snap, applied>>

RemoveDepDelete(r) ==
    /\ pc[r] = "rd_delete"
    /\ IF \E d \in deps : d.id = req[r].depId
       THEN /\ deps' = {d \in deps : d.id # req[r].depId}
            /\ loc' = [loc EXCEPT ![r].tasks = {Task(loc[r].existing)}]
            /\ pc' = [pc EXCEPT ![r] = "rd_audit"]
            /\ UNCHANGED resp
       ELSE /\ Throw(r)
            /\ UNCHANGED <<deps, loc>>
    /\ UNCHANGED <<story, nextDepId, sprint, auditUp, lists, idem, audit, req, snap, applied>>

RemoveDepAudit(r) ==
    /\ pc[r] = "rd_audit"
    /\ loc[r].tasks = {}
    /\ IF loc[r].failed
       THEN /\ Throw(r)
            /\ UNCHANGED audit
       ELSE /\ audit' = logAudit("dependency.deleted", req[r].depId)
            /\ Send(r, 200, Data(<<req[r].depId>>))
    /\ UNCHANGED <<db, idem, req, loc, snap, applied>>

RemoveDep(r) == RemoveDepFind(r) \/ RemoveDepDelete(r) \/ RemoveDepAudit(r)

\* ------------------------------------- POST /api/v1/projects/:id/sprints
SPRINT_STATUS_ALLOWLIST == {"planned", "active", "closed"}

\* body.status && !SPRINT_STATUS_ALLOWLIST.has(body.status)
InvalidSprintStatus(r) ==
    req[r].body.status # "" /\ req[r].body.status \notin SPRINT_STATUS_ALLOWLIST

\* sprint.findFirst({projectId, status: 'active'}): the rows it may return;
\* no orderBy is given, so any active sprint of the project
ActiveSprints(projectId) ==
    {s \in DOMAIN sprint : sprint[s].project = projectId /\ sprint[s].status = "active"}

OneActiveOnly(r) == Send(r, 409, ErrorString("only one active sprint is allowed per project"))

SprintCreateProject(r) ==
    /\ pc[r] = "sc_project"
    /\ IF trim(req[r].body.name) = ""
       THEN Send(r, 400, ErrorString("name is required"))
       ELSE IF req[r].id \notin projects
       THEN Send(r, 404, ErrorString("project not found"))
       ELSE IF InvalidSprintStatus(r)
       THEN Send(r, 400, errorPayload(400, "invalid sprint status", "VALIDATION_ERROR", <<>>))
       ELSE /\ pc' = [pc EXCEPT ![r] =
                        IF req[r].body.status = "active" THEN "sc_active" ELSE "sc_create"]
            /\ UNCHANGED resp
    /\ UNCHANGED <<db, idem, audit, req, loc, snap, applied>>

SprintCreateActive(r) ==
    /\ pc[r] = "sc_active"
    /\ IF ActiveSprints(req[r].id) # {}
       THEN OneActiveOnly(r)
       ELSE /\ pc' = [pc EXCEPT ![r] = "sc_create"]
            /\ UNCHANGED resp
    /\ UNCHANGED <<db, idem, audit, req, loc, snap, applied>>

\* ids for new rows, in the order they are handed out
SprintOrder == <<"s1", "s2", "s3", "s4", "s5", "s6">>
UnusedSprints == {i \in 1..Len(SprintOrder) : SprintOrder[i] \notin DOMAIN sprint}
NewSprintId == SprintOrder[CHOOSE i \in UnusedSprints : \A j \in UnusedSprints : i <= j]

\* sprint.create with status body.status ?? 'planned'
SprintCreateRow(r) ==
    /\ pc[r] = "sc_create"
    /\ IF req[r].id \in projects
       THEN /\ sprint' = sprint @@ (NewSprintId :>
                            [project |-> req[r].id,
                             status |-> IF req[r].body.status = "" THEN "planned"
                                        ELSE req[r].body.status])
            /\ loc' = [loc EXCEPT ![r].existing = NewSprintId]
            /\ applied' = Record(req[r])
            /\ pc' = [pc EXCEPT ![r] = "sc_audit"]
            /\ UNCHANGED resp
       ELSE /\ Throw(r)
            /\ UNCHANGED <<sprint, loc, applied>>
    /\ UNCHANGED <<story, deps, nextDepId, auditUp, lists, idem, audit, req, snap>>

SprintCreateAudit(r) ==
    /\ pc[r] = "sc_audit"
    /\ audit' = logAudit("sprint.created", loc[r].existing)
    /\ Send(r, 201, Data(<<loc[r].existing>>))
    /\ UNCHANGED <<db, idem, req, loc, snap, applied>>

SprintCreate(r) ==
    SprintCreateProject(r) \/ SprintCreateActive(r) \/ SprintCreateRow(r) \/ SprintCreateAudit(r)

\* ------------------------------------------------ PATCH /api/v1/sprints/:id
\* existing.status === 'closed' && body.status && body.status !== 'closed'
Reopens(r) ==
    loc[r].row[2] = "closed" /\ req[r].body.status \notin {"", "closed"}

SprintClosed(r) == Send(r, 409, ErrorString("closed sprint cannot be reopened in v2 defaults"))

\* loc.row holds existing: <<projectId, status>> as findUnique read them
SprintPatchFind(r) ==
    /\ pc[r] = "sp_find"
    /\ IF req[r].id \notin DOMAIN sprint
       THEN /\ Send(r, 404, ErrorString("sprint not found"))
            /\ UNCHANGED loc
       ELSE IF InvalidSprintStatus(r)
       THEN /\ Send(r, 400, errorPayload(400, "invalid sprint status", "VALIDATION_ERROR", <<>>))
            /\ UNCHANGED loc
       ELSE LET existing == sprint[req[r].id]
            IN /\ loc' = [loc EXCEPT ![r].row = <<existing.project, existing.status>>]
               /\ IF req[r].body.status = "active" /\ existing.status # "active"
                  THEN /\ pc' = [pc EXCEPT ![r] = "sp_active"]
                       /\ UNCHANGED resp
                  ELSE IF existing.status = "closed" /\ req[r].body.status \notin {"", "closed"}
                  THEN SprintClosed(r)
                  ELSE /\ pc' = [pc EXCEPT ![r] = "sp_update"]
                       /\ UNCHANGED resp
    /\ UNCHANGED <<db, idem, audit, req, snap, applied>>

SprintPatchActive(r) ==
    /\ pc[r] = "sp_active"
    /\ IF \E active \in ActiveSprints(loc[r].row[1]) : active # req[r].id
       THEN \/ OneActiveOnly(r)
            \/ /\ req[r].id \in ActiveSprints(loc[r].row[1])
               /\ IF Reopens(r) THEN SprintClosed(r)
                  ELSE /\ pc' = [pc EXCEPT ![r] = "sp_update"]
                       /\ UNCHANGED resp
       ELSE IF Reopens(r)
       THEN SprintClosed(r)
       ELSE /\ pc' = [pc EXCEPT ![r] = "sp_update"]
            /\ UNCHANGED resp
    /\ UNCHANGED <<db, idem, audit, req, loc, snap, applied>>

\* sprint.update with status body.status ?? existing.status
SprintPatchUpdate(r) ==
    /\ pc[r] = "sp_update"
    /\ sprint' = [sprint EXCEPT ![req[r].id].status =
                     IF req[r].body.status = "" THEN loc[r].row[2] ELSE req[r].body.status]
    /\ applied' = Record(req[r])
    /\ pc' = [pc EXCEPT ![r] = "sp_audit"]
    /\ UNCHANGED <<story, deps, nextDepId, auditUp, lists, idem, audit, req, loc, resp, snap>>

SprintPatchAudit(r) ==
    /\ pc[r] = "sp_audit"
    /\ audit' = logAudit("sprint.updated", req[r].id)
    /\ Send(r, 200, Data(<<req[r].id, sprint[req[r].id].status>>))
    /\ UNCHANGED <<db, idem, req, loc, snap, applied>>

SprintPatch(r) ==
    SprintPatchFind(r) \/ SprintPatchActive(r) \/ SprintPatchUpdate(r) \/ SprintPatchAudit(r)

\* ------------------------------------------ POST /api/v1/sprints/:id/start
SprintStartFind(r) ==
    /\ pc[r] = "ss_find"
    /\ IF req[r].id \notin DOMAIN sprint
       THEN /\ Send(r, 404, ErrorString("sprint not found"))
            /\ UNCHANGED loc
       ELSE IF sprint[req[r].id].status = "closed"
       THEN /\ Send(r, 409, ErrorString("cannot start a closed sprint"))
            /\ UNCHANGED loc
       ELSE /\ loc' = [loc EXCEPT ![r].row = <<sprint[req[r].id].project,
                                               sprint[req[r].id].status>>]
            /\ pc' = [pc EXCEPT ![r] = "ss_active"]
            /\ UNCHANGED resp
    /\ UNCHANGED <<db, idem, audit, req, snap, applied>>

SprintStartActive(r) ==
    /\ pc[r] = "ss_active"
    /\ IF \E active \in ActiveSprints(loc[r].row[1]) : active # req[r].id
       THEN \/ OneActiveOnly(r)
            \/ /\ req[r].id \in ActiveSprints(loc[r].row[1])
               /\ pc' = [pc EXCEPT ![r] = "ss_update"]
               /\ UNCHANGED resp
       ELSE /\ pc' = [pc EXCEPT ![r] = "ss_update"]
            /\ UNCHANGED resp
    /\ UNCHANGED <<db, idem, audit, req, loc, snap, applied>>

SprintStartUpdate(r) ==
    /\ pc[r] = "ss_update"
    /\ sprint' = [sprint EXCEPT ![req[r].id].status = "active"]
    /\ applied' = Record(req[r])
    /\ pc' = [pc EXCEPT ![r] = "ss_audit"]
    /\ UNCHANGED <<story, deps, nextDepId, auditUp, lists, idem, audit, req, loc, resp, snap>>

SprintStartAudit(r) ==
    /\ pc[r] = "ss_audit"
    /\ audit' = logAudit("sprint.started", req[r].id)
    /\ Send(r, 200, Data(<<req[r].id, sprint[req[r].id].status>>))
    /\ UNCHANGED <<db, idem, req, loc, snap, applied>>

SprintStart(r) ==
    SprintStartFind(r) \/ SprintStartActive(r) \/ SprintStartUpdate(r) \/ SprintStartAudit(r)

\* ------------------------------------------ POST /api/v1/sprints/:id/close
CloseSprintReq(key, id) ==
    [NoReq EXCEPT !.method = "POST", !.route = R_SPRINT_CLOSE, !.key = key, !.id = id]

SprintCloseFind(r) ==
    /\ pc[r] = "sx_find"
    /\ IF req[r].id \notin DOMAIN sprint
       THEN Send(r, 404, ErrorString("sprint not found"))
       ELSE /\ pc' = [pc EXCEPT ![r] = "sx_update"]
            /\ UNCHANGED resp
    /\ UNCHANGED <<db, idem, audit, req, loc, snap, applied>>

SprintCloseUpdate(r) ==
    /\ pc[r] = "sx_update"
    /\ sprint' = [sprint EXCEPT ![req[r].id].status = "closed"]
    /\ applied' = Record(req[r])
    /\ pc' = [pc EXCEPT ![r] = "sx_audit"]
    /\ UNCHANGED <<story, deps, nextDepId, auditUp, lists, idem, audit, req, loc, resp, snap>>

SprintCloseAudit(r) ==
    /\ pc[r] = "sx_audit"
    /\ audit' = logAudit("sprint.closed", req[r].id)
    /\ Send(r, 200, Data(<<req[r].id, sprint[req[r].id].status>>))
    /\ UNCHANGED <<db, idem, req, loc, snap, applied>>

SprintClose(r) == SprintCloseFind(r) \/ SprintCloseUpdate(r) \/ SprintCloseAudit(r)

\* --------------------------------- POST /api/v1/sprints/:id/stories:assign
\* the ids of a list, as story.findMany and updateMany take them
Ids(storyIds) == {storyIds[i] : i \in 1..Len(storyIds)}

\* the checks on storyIds, then sprint.findUnique; loc.row holds the
\* projectId of the sprint found
AssignSprint(r) ==
    /\ pc[r] = "as_sprint"
    /\ IF Len(req[r].body.storyIds) = 0
       THEN /\ Send(r, 400, ErrorString("storyIds is required"))
            /\ UNCHANGED loc
       ELSE IF Len(req[r].body.storyIds) > MAX_BATCH_SIZE
       THEN /\ Send(r, 400, errorPayload(400, "max batch size is 100", "VALIDATION_ERROR", <<>>))
            /\ UNCHANGED loc
       ELSE IF req[r].id \notin DOMAIN sprint
       THEN /\ Send(r, 404, ErrorString("sprint not found"))
            /\ UNCHANGED loc
       ELSE IF sprint[req[r].id].status = "closed"
       THEN /\ Send(r, 409, ErrorString("cannot assign stories to closed sprint"))
            /\ UNCHANGED loc
       ELSE /\ loc' = [loc EXCEPT ![r].row = <<sprint[req[r].id].project>>]
            /\ pc' = [pc EXCEPT ![r] = "as_stories"]
            /\ UNCHANGED resp
    /\ UNCHANGED <<db, idem, audit, req, snap, applied>>

\* story.findMany({id: {in: storyIds}}): the stories of another project are
\* refused, then the dry run returns
AssignStories(r) ==
    /\ pc[r] = "as_stories"
    /\ LET stories == {s \in Ids(req[r].body.storyIds) : Live(s)}
           invalid == {s \in stories : story[s].project # loc[r].row[1]}
       IN IF invalid # {}
          THEN Send(r, 400, errorPayload(400, "all stories must belong to the sprint project",
                                         "VALIDATION_ERROR", <<invalid>>))
          ELSE IF req[r].body.dry_run
          THEN Send(r, 200, Data(<<TRUE, req[r].id, Cardinality(stories)>>))
          ELSE /\ pc' = [pc EXCEPT ![r] = "as_update"]
               /\ UNCHANGED resp
    /\ UNCHANGED <<db, idem, audit, req, loc, snap, applied>>

\* story.updateMany({id: {in: storyIds}, projectId: sprint.projectId},
\* {sprintId: id}); loc.idx holds result.count
AssignUpdate(r) ==
    /\ pc[r] = "as_update"
    /\ LET hit == {s \in Ids(req[r].body.storyIds) :
                      Live(s) /\ story[s].project = loc[r].row[1]}
       IN /\ story' = [s \in Stories |->
                          IF s \in hit THEN [story[s] EXCEPT !.sprintId = req[r].id]
                          ELSE story[s]]
          /\ loc' = [loc EXCEPT ![r].idx = Cardinality(hit)]
    /\ applied' = Record(req[r])
    /\ pc' = [pc EXCEPT ![r] = "as_audit"]
    /\ UNCHANGED <<deps, nextDepId, sprint, auditUp, lists, idem, audit, req, resp, snap>>

AssignAudit(r) ==
    /\ pc[r] = "as_audit"
    /\ audit' = logAudit("sprint.stories_assigned", req[r].id)
    /\ Send(r, 200, Data(<<req[r].id, loc[r].idx>>))
    /\ UNCHANGED <<db, idem, req, loc, snap, applied>>

Assign(r) == AssignSprint(r) \/ AssignStories(r) \/ AssignUpdate(r) \/ AssignAudit(r)

\* ------------------------------------------- DELETE /api/v1/projects/:id
DeleteProjectFind(r) ==
    /\ pc[r] = "dp_find"
    /\ IF req[r].id \in projects
       THEN /\ pc' = [pc EXCEPT ![r] = "dp_count"]
            /\ UNCHANGED resp
       ELSE Send(r, 404, ErrorString("project not found"))
    /\ UNCHANGED <<db, idem, audit, req, loc, snap, applied>>

\* the stories of a project
StoriesOf(projectId) == {s \in Stories : Live(s) /\ story[s].project = projectId}

\* story.count; the FileAsset and AgentSession tables hold no rows here, so
\* their counts are 0
DeleteProjectCount(r) ==
    /\ pc[r] = "dp_count"
    /\ LET isEmpty == Cardinality(StoriesOf(req[r].id)) = 0
       IN IF ~isEmpty /\ req[r].force # "true"
          THEN Send(r, 409, ErrorString("project not empty; pass force=true to delete"))
          ELSE /\ pc' = [pc EXCEPT ![r] = "dp_delete"]
               /\ UNCHANGED resp
    /\ UNCHANGED <<db, idem, audit, req, loc, snap, applied>>

\* variant of auditAfterProjectDelete: the events go with the project
auditCascade(events, projectId) == <<>>

\* the AuditEvent rows once a Project row is deleted: an event is one
\* immutable row, never updated or deleted
auditAfterProjectDelete(events, projectId) == events

\* project.delete fails when the row is gone (P2025) and when a row of another
\* table still refers to it: a story (Story_projectId_fkey, ON DELETE
\* RESTRICT) or a sprint, whose projectId is taken to be declared as the
\* story's is and which the handler never deletes
DeleteRefused(projectId, left) ==
    \/ projectId \notin projects
    \/ left # {}
    \/ \E s \in DOMAIN sprint : sprint[s].project = projectId

\* force=true: $transaction([story.deleteMany, project.delete]), all or
\* nothing; otherwise project.delete alone
DeleteProjectRow(r) ==
    /\ pc[r] = "dp_delete"
    /\ LET id == req[r].id
           left == IF req[r].force = "true" THEN {} ELSE StoriesOf(id)
       IN IF DeleteRefused(id, left)
          THEN /\ Throw(r)
               /\ UNCHANGED <<story, deps, labels, projects, audit>>
          ELSE /\ story' = [s \in Stories |-> IF s \in StoriesOf(id) THEN Gone ELSE story[s]]
               /\ deps' = {d \in deps : d.storyId \notin StoriesOf(id)
                                         /\ d.dependsOnStoryId \notin StoriesOf(id)}
               /\ labels' = cascadeLabels(StoriesOf(id))
               /\ projects' = projects \ {id}
               /\ audit' = auditAfterProjectDelete(audit, id)
               /\ pc' = [pc EXCEPT ![r] = "dp_audit"]
               /\ UNCHANGED resp
    /\ UNCHANGED <<nextDepId, sprint, auditUp, clock, table, trav, idem, req, loc, snap, applied>>

DeleteProjectAudit(r) ==
    /\ pc[r] = "dp_audit"
    /\ audit' = logAudit("project.deleted", req[r].id)
    /\ Send(r, 200, Data(<<req[r].id>>))
    /\ UNCHANGED <<db, idem, req, loc, snap, applied>>

DeleteProject(r) ==
    DeleteProjectFind(r) \/ DeleteProjectCount(r) \/ DeleteProjectRow(r) \/ DeleteProjectAudit(r)

\* -------------------------------------- POST /api/v1/stories/:id/labels
\* body.label.trim() is empty: 400 before any query; then story.findUnique
AddLabelFind(r) ==
    /\ pc[r] = "al_find"
    /\ IF trim(req[r].body.label) = ""
       THEN Send(r, 400, ErrorString("label is required"))
       ELSE IF ~Live(req[r].id)
       THEN Send(r, 404, ErrorString("story not found"))
       ELSE /\ pc' = [pc EXCEPT ![r] = "al_create"]
            /\ UNCHANGED resp
    /\ UNCHANGED <<db, idem, audit, req, loc, snap, applied>>

\* storyLabel.create under the unique index on (storyId, label) and the
\* foreign key to Story; P2002 becomes 409, any other error is thrown; the
\* handler returns without a call to logAudit
AddLabelCreate(r) ==
    /\ pc[r] = "al_create"
    /\ LET row == <<req[r].id, trim(req[r].body.label)>>
       IN IF row \in labels
          THEN /\ Send(r, 409, ErrorString("label already exists for this story"))
               /\ UNCHANGED <<labels, applied>>
          ELSE IF ~Live(req[r].id)
          THEN /\ Throw(r)
               /\ UNCHANGED <<labels, applied>>
          ELSE /\ labels' = labels \cup {row}
               /\ applied' = Record(req[r])
               /\ Send(r, 201, Data(row))
    /\ UNCHANGED <<story, deps, nextDepId, sprint, auditUp, clock, table, trav, projects, idem,
                   audit, req, loc, snap>>

AddLabel(r) == AddLabelFind(r) \/ AddLabelCreate(r)

\* ------------------------------- DELETE /api/v1/stories/:id/labels/:label
RemoveLabelFind(r) ==
    /\ pc[r] = "rl_find"
    /\ IF Live(req[r].id)
       THEN /\ pc' = [pc EXCEPT ![r] = "rl_delete"]
            /\ UNCHANGED resp
       ELSE Send(r, 404, ErrorString("story not found"))
    /\ UNCHANGED <<db, idem, audit, req, loc, snap, applied>>

\* storyLabel.deleteMany; count 0 is answered 404; no call to logAudit
RemoveLabelDelete(r) ==
    /\ pc[r] = "rl_delete"
    /\ LET row == <<req[r].id, req[r].label>>
       IN IF row \in labels
          THEN /\ labels' = labels \ {row}
               /\ Send(r, 200, Data(row))
          ELSE /\ Send(r, 404, ErrorString("label not found"))
               /\ UNCHANGED labels
    /\ UNCHANGED <<story, deps, nextDepId, sprint, auditUp, clock, table, trav, projects, idem,
                   audit, req, loc, snap, applied>>

RemoveLabel(r) == RemoveLabelFind(r) \/ RemoveLabelDelete(r)

\* -------------------------------------- POST /api/v1/stories/batch/move
Result(id, ok, error) == [id |-> id, ok |-> ok, error |-> error]

\* the catch around run(): 409 CONFLICT carrying the results collected so far
BatchConflict(r, message, results) ==
    Send(r, 409, errorPayload(409, message, "CONFLICT", results))

\* the checks on the items list made before run()
BatchStart(r, next) ==
    LET items == req[r].body.items
    IN /\ IF Len(items) = 0
          THEN /\ Send(r, 400, ErrorString("items are required"))
               /\ UNCHANGED loc
          ELSE IF Len(items) > MAX_BATCH_SIZE
          THEN /\ Send(r, 400, errorPayload(400, "max batch size is 100", "VALIDATION_ERROR", <<>>))
               /\ UNCHANGED loc
          ELSE /\ loc' = [loc EXCEPT ![r].idx = 1]
               /\ pc' = [pc EXCEPT ![r] = next]
               /\ UNCHANGED resp
       /\ UNCHANGED <<db, idem, audit, req, snap, applied>>

\* run() reaches the end of the items
BatchReturn(r) ==
    Send(r, 200, Data(<<req[r].body.dry_run, loc[r].results>>))

\* variant of BatchFail: the first failing item ends the batch, whatever
\* all_or_nothing says
BatchFailAlways(r, error, message, next) ==
    LET item == req[r].body.items[loc[r].idx]
        results == Append(loc[r].results, Result(item.id, FALSE, error))
    IN /\ BatchConflict(r, message, results)
       /\ loc' = [loc EXCEPT ![r].results = results]

\* an item that fails: with all_or_nothing run() throws, otherwise it goes on
BatchFail(r, error, message, next) ==
    LET item == req[r].body.items[loc[r].idx]
        results == Append(loc[r].results, Result(item.id, FALSE, error))
    IN IF req[r].body.all_or_nothing
       THEN /\ BatchConflict(r, message, results)
            /\ loc' = [loc EXCEPT ![r].results = results]
       ELSE /\ loc' = [loc EXCEPT ![r].results = results, ![r].idx = @ + 1]
            /\ pc' = [pc EXCEPT ![r] = next]
            /\ UNCHANGED resp

BatchOk(r, next) ==
    LET item == req[r].body.items[loc[r].idx]
    IN /\ loc' = [loc EXCEPT ![r].results = Append(@, Result(item.id, TRUE, "")),
                             ![r].idx = @ + 1]
       /\ pc' = [pc EXCEPT ![r] = next]
       /\ UNCHANGED resp

\* prisma.$transaction(async () => run()): run() never takes the transaction's
\* client, so its calls go through the global client while the transaction is
\* open.  Such a call proceeds, or it fails on the database lock or on the
\* connection pool and run() throws; what was written before stays written.
TransactionBlocked(r, points) ==
    /\ pc[r] \in points
    /\ req[r].body.all_or_nothing
    /\ ~req[r].body.dry_run
    /\ loc[r].idx <= Len(req[r].body.items)
    /\ BatchConflict(r, "batch failed", loc[r].results)
    /\ UNCHANGED <<db, idem, audit, req, loc, snap, applied>>

\* variant of DryRun: the flag is not looked at
DryRunIgnored(r) == FALSE

\* if (body.dry_run): the item is reported ok and nothing is written
DryRun(r) == req[r].body.dry_run

BatchMoveBlocked(r) == TransactionBlocked(r, {"bm_find", "bm_update", "bm_dependents"})

BatchMoveStart(r) ==
    /\ pc[r] = "bm_start"
    /\ BatchStart(r, "bm_find")

BatchMoveFind(r) ==
    /\ pc[r] = "bm_find"
    /\ IF loc[r].idx > Len(req[r].body.items)
       THEN /\ BatchReturn(r)
            /\ UNCHANGED loc
       ELSE LET item == req[r].body.items[loc[r].idx]
            IN IF ~Live(item.id)
               THEN BatchFail(r, "story not found", "story not found", "bm_find")
               ELSE IF DryRun(r)
               THEN BatchOk(r, "bm_find")
               ELSE /\ pc' = [pc EXCEPT ![r] = "bm_update"]
                    /\ UNCHANGED <<loc, resp>>
    /\ UNCHANGED <<db, idem, audit, req, snap, applied>>

\* the writes of run() go through the global client, also when run() is the
\* callback of prisma.$transaction: each takes effect when it is made
BatchMoveUpdate(r) ==
    /\ pc[r] = "bm_update"
    /\ LET item == req[r].body.items[loc[r].idx]
       IN IF Live(item.id)
          THEN /\ story' = [story EXCEPT ![item.id].status = item.status]
               /\ applied' = Record(req[r])
               /\ pc' = [pc EXCEPT ![r] = "bm_dependents"]
               /\ UNCHANGED resp
          ELSE /\ BatchConflict(r, "record to update not found", loc[r].results)
               /\ UNCHANGED <<story, applied>>
    /\ UNCHANGED <<deps, nextDepId, sprint, auditUp, lists, idem, audit, req, loc, snap>>

BatchMoveDependents(r) ==
    /\ pc[r] = "bm_dependents"
    /\ loc' = [loc EXCEPT ![r].tasks =
                  {Task(s) : s \in Dependents(req[r].body.items[loc[r].idx].id)}]
    /\ pc' = [pc EXCEPT ![r] = "bm_audit"]
    /\ UNCHANGED <<db, idem, audit, req, resp, snap, applied>>

BatchMoveAudit(r) ==
    /\ pc[r] = "bm_audit"
    /\ loc[r].tasks = {}
    /\ IF loc[r].failed
       THEN /\ BatchConflict(r, "record to update not found", loc[r].results)
            /\ UNCHANGED <<audit, loc>>
       ELSE /\ audit' = logAudit("story.moved", req[r].body.items[loc[r].idx].id)
            /\ BatchOk(r, "bm_find")
    /\ UNCHANGED <<db, idem, req, snap, applied>>

BatchMove(r) ==
    BatchMoveStart(r) \/ BatchMoveFind(r) \/ BatchMoveUpdate(r) \/ BatchMoveDependents(r)
        \/ BatchMoveAudit(r) \/ BatchMoveBlocked(r)

\* ------------------------------------- POST /api/v1/stories/batch/patch
BatchPatchBlocked(r) == TransactionBlocked(r, {"bp_find", "bp_sprint", "bp_update"})

BatchPatchStart(r) ==
    /\ pc[r] = "bp_start"
    /\ BatchStart(r, "bp_find")

BatchPatchFind(r) ==
    /\ pc[r] = "bp_find"
    /\ IF loc[r].idx > Len(req[r].body.items)
       THEN /\ BatchReturn(r)
            /\ UNCHANGED loc
       ELSE LET item == req[r].body.items[loc[r].idx]
            IN IF ~Live(item.id)
               THEN BatchFail(r, "story not found", "story not found", "bp_find")
               ELSE IF item.sprintId \notin {"", "null"}
               THEN /\ loc' = [loc EXCEPT ![r].existing = story[item.id].project]
                    /\ pc' = [pc EXCEPT ![r] = "bp_sprint"]
                    /\ UNCHANGED resp
               ELSE IF DryRun(r)
               THEN BatchOk(r, "bp_find")
               ELSE /\ pc' = [pc EXCEPT ![r] = "bp_update"]
                    /\ UNCHANGED <<loc, resp>>
    /\ UNCHANGED <<db, idem, audit, req, snap, applied>>

BatchPatchSprint(r) ==
    /\ pc[r] = "bp_sprint"
    /\ LET item == req[r].body.items[loc[r].idx]
       IN IF sprintRefusal(item.sprintId, loc[r].existing) # 0
          THEN BatchFail(r, "invalid sprint assignment", "invalid sprint", "bp_find")
          ELSE IF DryRun(r)
          THEN BatchOk(r, "bp_find")
          ELSE /\ pc' = [pc EXCEPT ![r] = "bp_update"]
               /\ UNCHANGED <<loc, resp>>
    /\ UNCHANGED <<db, idem, audit, req, snap, applied>>

\* story.update data of batch patch: priority, blocked and sprintId of the
\* item's patch, an absent field ("") leaving the column alone
batchPatchData(row, patch) ==
    [row EXCEPT !.priority = IF patch.priority = "" THEN @ ELSE patch.priority,
                !.blocked = IF patch.blocked = "" THEN @ ELSE patch.blocked = "true",
                !.sprintId = IF patch.sprintId = "" THEN @
                             ELSE IF patch.sprintId = "null" THEN "" ELSE patch.sprintId]

BatchPatchUpdate(r) ==
    /\ pc[r] = "bp_update"
    /\ LET item == req[r].body.items[loc[r].idx]
       IN IF Live(item.id)
          THEN /\ story' = [story EXCEPT ![item.id] = batchPatchData(@, item)]
               /\ applied' = Record(req[r])
               /\ pc' = [pc EXCEPT ![r] = "bp_audit"]
               /\ UNCHANGED resp
          ELSE /\ BatchConflict(r, "record to update not found", loc[r].results)
               /\ UNCHANGED <<story, applied>>
    /\ UNCHANGED <<deps, nextDepId, sprint, auditUp, lists, idem, audit, req, loc, snap>>

BatchPatchAudit(r) ==
    /\ pc[r] = "bp_audit"
    /\ audit' = logAudit("story.updated", req[r].body.items[loc[r].idx].id)
    /\ BatchOk(r, "bp_find")
    /\ UNCHANGED <<db, idem, req, snap, applied>>

BatchPatch(r) ==
    BatchPatchStart(r) \/ BatchPatchFind(r) \/ BatchPatchSprint(r) \/ BatchPatchUpdate(r)
        \/ BatchPatchAudit(r) \/ BatchPatchBlocked(r)

Refresh(r) == refreshBlockedRead(r) \/ refreshBlockedWrite(r)

Hooks(r) == PreHandler(r) \/ OnSend(r) \/ Finish(r)

\* ------------------------------------------------------------- list pages
RowIds == 1..MaxRows
Unlisted == [life |-> "new", ts |-> 0]
Listed == {i \in RowIds : table[i].life = "live"}
\* the columns of row i that a list reads
Item(i) == [id |-> i, ts |-> table[i].ts]

NoCursor == <<>>
BadCursor == <<"x">>
NoLimit == 0 - 1

\* the text `${updatedAt.toISOString()}|${id}`, piece by piece; base64url is
\* one-to-one and toISOString keeps the milliseconds a Date holds
encodeCursor(updatedAt, id) == <<updatedAt, "|", id>>

\* decoded.split('|') gives [iso, id]; without a second piece id is undefined
\* and the result is null (the empty set here)
decodeCursor(cursor) ==
    IF cursor = NoCursor \/ Len(cursor) < 3 THEN {}
    ELSE {[updatedAt |-> cursor[1], id |-> cursor[3]]}

\* variant of cursorWhere: the row the cursor names is matched too
cursorWhereLoose(cursor, row) ==
    \A parsed \in decodeCursor(cursor) :
        \/ row.ts < parsed.updatedAt
        \/ row.ts = parsed.updatedAt /\ row.id <= parsed.id

\* cursorWhere / cursorWhereByCreatedAt as a condition on a row: none without
\* a cursor, else OR [{ts < cursor.ts}, {ts = cursor.ts, id < cursor.id}]
cursorWhere(cursor, row) ==
    \A parsed \in decodeCursor(cursor) :
        \/ row.ts < parsed.updatedAt
        \/ row.ts = parsed.updatedAt /\ row.id < parsed.id

parseLimitStrict(raw) ==
    IF raw = NoLimit THEN [limit |-> DEFAULT_LIMIT, error |-> ""]
    ELSE IF raw < 1 THEN [limit |-> DEFAULT_LIMIT, error |-> "limit must be a positive integer"]
    ELSE IF raw > MAX_LIMIT THEN [limit |-> MAX_LIMIT, error |-> "limit capped at 200"]
    ELSE [limit |-> raw, error |-> ""]

\* orderBy [{ts: 'desc'}, {id: 'desc'}]
Before(a, b) == a.ts > b.ts \/ (a.ts = b.ts /\ a.id > b.id)
RECURSIVE OrderBy(_)
OrderBy(S) ==
    IF S = {} THEN <<>>
    ELSE LET first == CHOOSE a \in S : \A b \in S \ {a} : Before(a, b)
         IN <<first>> \o OrderBy(S \ {first})

\* findMany({where: cursor condition, orderBy, take})
findMany(cursor, take) ==
    LET found == OrderBy({Item(i) : i \in {j \in Listed : cursorWhere(cursor, Item(j))}})
    IN IF Len(found) > take THEN SubSeq(found, 1, take) ELSE found

Listing(status, data, nextCursor, hasMore) ==
    [status |-> status, data |-> data, nextCursor |-> nextCursor, hasMore |-> hasMore]

\* the reply of a list endpoint to ?cursor=..&limit=..
ListReply(cursor, raw) ==
    LET limitResult == parseLimitStrict(raw)
    IN IF limitResult.error # "" \/ (cursor # NoCursor /\ decodeCursor(cursor) = {})
       THEN Listing(400, <<>>, NoCursor, FALSE)
       ELSE LET rowsFound == findMany(cursor, limitResult.limit + 1)
                hasMore == Len(rowsFound) > limitResult.limit
                pageItems == IF hasMore THEN SubSeq(rowsFound, 1, limitResult.limit)
                             ELSE rowsFound
                last == pageItems[Len(pageItems)]
                nextCursor == IF hasMore THEN encodeCursor(last.ts, last.id) ELSE NoCursor
            IN Listing(200, pageItems, nextCursor, hasMore)

NoTrav ==
    [phase |-> "idle", raw |-> NoLimit, asked |-> NoCursor, reply |-> Listing(0, <<>>, NoCursor, FALSE),
     emitted |-> <<>>, began |-> {}]

InitLists ==
    /\ clock = 0
    /\ table = [i \in RowIds |-> Unlisted]
    /\ trav = NoTrav
    /\ projects = Projects
    /\ labels = {}

served ==
    <<story, deps, nextDepId, sprint, auditUp, idem, audit, pc, req, loc, resp, snap, applied,
      projects, labels>>

\* a millisecond passes
Tick ==
    /\ clock < MaxClock
    /\ clock' = clock + 1
    /\ UNCHANGED <<table, trav, served>>

\* create() of a row: the id is a fresh uuid, the timestamp is now
Insert ==
    \E i \in RowIds :
        /\ table[i].life = "new"
        /\ table' = [table EXCEPT ![i] = [life |-> "live", ts |-> clock]]
        /\ UNCHANGED <<clock, trav, served>>

\* story.update of a row, whatever the columns written: @updatedAt becomes now
Touch ==
    \E i \in Listed :
        /\ table' = [table EXCEPT ![i].ts = clock]
        /\ UNCHANGED <<clock, trav, served>>

LimitInputs == {NoLimit, 0, MAX_LIMIT + 1} \cup 1..MaxLimit

\* one GET of a list endpoint: the first with any limit and without a usable
\* cursor, the following ones with the nextCursor received and the same limit
List ==
    \E raw \in IF trav.phase = "idle" THEN LimitInputs ELSE {trav.raw} :
        \E cursor \in IF trav.phase = "idle" THEN {NoCursor, BadCursor}
                       ELSE {trav.reply.nextCursor} :
            LET reply == ListReply(cursor, raw)
            IN /\ trav.phase \in {"idle", "going"}
               /\ trav' = [phase |-> IF reply.hasMore THEN "going" ELSE "done",
                           raw |-> raw,
                           asked |-> cursor,
                           reply |-> reply,
                           emitted |-> trav.emitted \o [k \in 1..Len(reply.data) |-> reply.data[k].id],
                           began |-> IF trav.phase = "idle" THEN Listed ELSE trav.began]
               /\ UNCHANGED <<clock, table, served>>

\* ------------------------------------------------------------ initial state
InitSlots ==
    /\ pc = [r \in Slots |-> "idle"]
    /\ req = [r \in Slots |-> NoReq]
    /\ loc = [r \in Slots |-> NoLoc]
    /\ resp = [r \in Slots |-> NoResp]
    /\ snap = [r \in Slots |-> NoSnap]
    /\ idem = <<>>
    /\ audit = <<>>
    /\ applied = <<>>

InitSprints ==
    sprint = [s \in Sprints |-> IF s = "s1" THEN [project |-> "p1", status |-> "planned"]
                                ELSE [project |-> "p1", status |-> "closed"]]

\* A depends on B, both waiting, A blocked; C is not created yet
Init ==
    /\ story = [s \in Stories |->
                  IF s = "A" THEN [Row("p1", "waiting") EXCEPT !.blocked = TRUE]
                  ELSE IF s = "B" THEN Row("p1", "waiting")
                  ELSE NoRow]
    /\ deps = {Dep(1, "A", "B")}
    /\ nextDepId = 2
    /\ auditUp = TRUE
    /\ InitSprints
    /\ InitSlots
    /\ InitLists

\* --------------------------------------------- keyed requests, overlapping
IdemRequests ==
    {MoveReq(k, s, st) : k \in Keys, s \in {"B", Missing}, st \in {"completed", "waiting"}}

ArriveKeyed(r) == \E q \in IdemRequests : Len(audit) < MaxAudit /\ Arrive(r, q)

Next == \E r \in Slots : ArriveKeyed(r) \/ Hooks(r) \/ Move(r) \/ Refresh(r)

Spec == Init /\ [][Next]_vars

\* ------------------------------------- dependency requests, one at a time
\* three stories of one project, no dependency yet
GraphInit ==
    /\ story = [s \in Stories |-> Row("p1", IF s = "C" THEN "completed" ELSE "waiting")]
    /\ deps = {}
    /\ nextDepId = 1
    /\ auditUp \in BOOLEAN
    /\ InitSprints
    /\ InitSlots
    /\ InitLists

GraphRequests ==
    {AddDepReq(NoKey, s, t) : s \in IF nextDepId <= MaxDepId THEN Stories ELSE {},
                              t \in Stories}
        \cup {RemoveDepReq(n) : n \in 1..(nextDepId - 1)}
        \cup {DeleteReq(s) : s \in Stories}

ArriveGraph == \E q \in GraphRequests : Idle /\ Len(audit) < MaxAudit /\ Arrive("r1", q)

GraphNext ==
    ArriveGraph \/ Hooks("r1") \/ AddDep("r1") \/ RemoveDep("r1") \/ Delete("r1") \/ Refresh("r1")

GraphSpec == GraphInit /\ [][GraphNext]_vars

\* ------------------------------------------ dependency requests, overlapping
RaceRequests == {AddDepReq(NoKey, s, t) : s \in Stories, t \in Stories}

ArriveRace(r) ==
    \E q \in RaceRequests : nextDepId <= MaxRaceDepId /\ Len(audit) < MaxAudit /\ Arrive(r, q)

RaceNext == \E r \in Slots : ArriveRace(r) \/ Hooks(r) \/ AddDep(r) \/ Refresh(r)

RaceSpec == GraphInit /\ [][RaceNext]_vars

\* ----------------------------------------------- story requests, one at a time
StoryRequests ==
    {PatchReq(NoKey, id, st, bl, "", sp) :
        id \in {"A", "B", Missing}, st \in {"", "completed"}, bl \in {"", "true", "false"},
        sp \in {"", "s1", "s2"}}
    \cup {CreateReq(NoKey, "p1", "", bl, sp) : bl \in {"", "true"}, sp \in {"", "s1", "s2"}}
    \cup {CreateReq(NoKey, "p9", "", "", "")}
    \cup {MoveReq(NoKey, id, st) : id \in {"A", "B"}, st \in {"completed", "waiting"}}
    \cup {DeleteReq(id) : id \in {"B"}}

ArriveStory == \E q \in StoryRequests : Idle /\ Len(audit) < MaxStoryAudit /\ Arrive("r1", q)

StoryNext ==
    ArriveStory \/ Hooks("r1") \/ Patch("r1") \/ Create("r1") \/ Move("r1") \/ Delete("r1")
        \/ Refresh("r1")

StorySpec == Init /\ [][StoryNext]_vars

\* ------------------- dependencies added one at a time, targets moved overlapping
\* three waiting stories of one project, no dependency yet
UnblockInit ==
    /\ story = [s \in Stories |-> Row("p1", "waiting")]
    /\ deps = {}
    /\ nextDepId = 1
    /\ auditUp \in BOOLEAN
    /\ InitSprints
    /\ InitSlots
    /\ InitLists

\* an add-dependency arrives when nothing is in flight, a move when no
\* add-dependency is
UnblockRequests ==
    {AddDepReq(NoKey, "A", t) : t \in IF Idle THEN {"B", "C"} ELSE {}}
        \cup {MoveReq(NoKey, s, "completed") :
                 s \in IF \A r \in Slots : req[r].route # R_DEPS THEN {"B", "C"} ELSE {}}

ArriveUnblock(r) == \E q \in UnblockRequests : Len(audit) < MaxUnblockAudit /\ Arrive(r, q)

UnblockNext ==
    \E r \in Slots : ArriveUnblock(r) \/ Hooks(r) \/ AddDep(r) \/ Move(r) \/ Refresh(r)

UnblockSpec == UnblockInit /\ [][UnblockNext]_vars

\* ------------------------- dependency requests between two stories, overlapping
PairRequests == {AddDepReq(NoKey, s, t) : s, t \in {"A", "B"}} \ {AddDepReq(NoKey, s, s) : s \in Stories}

ArrivePair(r) == \E q \in PairRequests : nextDepId <= MaxPairDepId /\ Arrive(r, q)

PairNext == \E r \in Slots : ArrivePair(r) \/ Hooks(r) \/ AddDep(r) \/ Refresh(r)

PairSpec == GraphInit /\ [][PairNext]_vars

\* ------------------- dependency and patch requests on stories of two projects
ProjectInit ==
    /\ story = [s \in Stories |-> Row(IF s = "C" THEN "p2" ELSE "p1", "waiting")]
    /\ deps = {}
    /\ nextDepId = 1
    /\ auditUp \in BOOLEAN
    /\ InitSprints
    /\ InitSlots
    /\ InitLists

\* the patches name another project in their body
ProjectRequests ==
    {AddDepReq(NoKey, s, t) : s \in IF nextDepId <= MaxProjectDepId THEN Stories ELSE {},
                              t \in Stories}
        \cup {[PatchReq(NoKey, "A", "", "", "high", sp) EXCEPT !.body.projectId = "p2"] :
                 sp \in {"", "s1"}}

ArriveProject(r) == \E q \in ProjectRequests : Len(audit) < MaxProjectAudit /\ Arrive(r, q)

ProjectNext ==
    \E r \in Slots : ArriveProject(r) \/ Hooks(r) \/ AddDep(r) \/ Patch(r) \/ Refresh(r)

ProjectSpec == ProjectInit /\ [][ProjectNext]_vars

\* ----------------------------- keyed requests retried, with deletes in between
\* a request that takes part in idempotency is in flight
KeyedInFlight == \E r \in Slots : pc[r] \notin {"idle", "done"} /\ Guarded(req[r])

\* keyed moves arrive one at a time; deletes, with or without the key, and
\* moves with a blank key arrive at any time
RetryRequests ==
    {MoveReq(k, s, "completed") : k \in IF KeyedInFlight THEN {} ELSE Keys, s \in {"B", Missing}}
        \cup {MoveReq(Blank, "B", "waiting")}
        \cup {[DeleteReq("B") EXCEPT !.key = k] : k \in Keys \cup {NoKey}}

ArriveRetry(r) == \E q \in RetryRequests : Len(audit) < MaxRetryAudit /\ Arrive(r, q)

RetryNext == \E r \in Slots : ArriveRetry(r) \/ Hooks(r) \/ Move(r) \/ Delete(r) \/ Refresh(r)

RetrySpec == Init /\ [][RetryNext]_vars

\* ------------------------- one key on several routes, methods and parameters
KeyRequests ==
    {MoveReq(k, s, st) : k \in Keys, s \in {"A", "B", Missing}, st \in {"completed", "waiting"}}
        \cup {PatchReq(k, s, "", "", "high", sp) : k \in Keys, s \in {"A", "B"}, sp \in {"", "s1"}}
        \cup {AddDepReq(k, s, "A") : k \in Keys, s \in {"A", "B"}}

ArriveKey == \E q \in KeyRequests : Idle /\ Len(audit) < MaxKeyAudit /\ Arrive("r1", q)

KeyNext ==
    ArriveKey \/ Hooks("r1") \/ Move("r1") \/ Patch("r1") \/ AddDep("r1") \/ Refresh("r1")

KeySpec == GraphInit /\ [][KeyNext]_vars

\* ----------------------------------- keyed moves while stored records age
\* a retention window and a millisecond go by
Expire ==
    /\ clock < MaxExpiries * (IDEMPOTENCY_TTL_MS + 1)
    /\ clock' = clock + IDEMPOTENCY_TTL_MS + 1
    /\ UNCHANGED <<table, trav, served>>

ExpiryRequests ==
    {MoveReq(k, s, st) : k \in Keys \cup {NoKey}, s \in {"B", Missing},
                         st \in {"completed", "waiting"}}

ArriveExpiry(r) == \E q \in ExpiryRequests : Len(audit) < MaxExpiryAudit /\ Arrive(r, q)

ExpiryNext ==
    \/ \E r \in Slots : ArriveExpiry(r) \/ Hooks(r) \/ Move(r) \/ Refresh(r)
    \/ Expire

ExpirySpec == Init /\ [][ExpiryNext]_vars

\* ------------------------------------------------------- list traversals
\* a table that only grows: agent events, files, audit events
PageNext == Tick \/ Insert \/ List
PageSpec == Init /\ [][PageNext]_vars

\* the Story table, whose rows are also updated
StoryPageNext == Tick \/ Insert \/ Touch \/ List
StoryPageSpec == Init /\ [][StoryPageNext]_vars

\* ------------------------------------------------ batch requests, one at a time
\* A depends on B and C; B, C waiting; s1 takes stories, s2 is closed
BatchInit ==
    /\ story = [s \in Stories |->
                  IF s = "A" THEN [Row("p1", "waiting") EXCEPT !.blocked = TRUE]
                  ELSE Row("p1", "waiting")]
    /\ deps = {Dep(1, "A", "B"), Dep(2, "A", "C")}
    /\ nextDepId = 3
    /\ auditUp = TRUE
    /\ InitSprints
    /\ InitSlots
    /\ InitLists

ItemLists(S) == UNION {[1..n -> S] : n \in 0..MaxBatch}

MoveItems == {MoveItem(id, "completed") : id \in {"B", "C", Missing}}
PatchItems == {PatchItem("A", "high", "false", ""), PatchItem("B", "", "", "s1"),
               PatchItem("B", "high", "", "s2"), PatchItem(Missing, "high", "", "")}

BatchRequests ==
    {BatchReq(NoKey, R_BATCH_MOVE, items, dry, aon) :
        items \in ItemLists(MoveItems), dry \in BOOLEAN, aon \in BOOLEAN}
    \cup {BatchReq(NoKey, R_BATCH_PATCH, items, dry, aon) :
        items \in ItemLists(PatchItems), dry \in BOOLEAN, aon \in BOOLEAN}

ArriveBatch ==
    \E q \in BatchRequests : Idle /\ Len(audit) < MaxBatchAudit /\ Arrive("r1", q)

BatchNext ==
    ArriveBatch \/ Hooks("r1") \/ BatchMove("r1") \/ BatchPatch("r1") \/ Refresh("r1")

BatchSpec == BatchInit /\ [][BatchNext]_vars

\* ------------------------------------- batches overlapping story deletes
BatchRaceRequests ==
    {BatchReq(NoKey, R_BATCH_MOVE, <<MoveItem("B", "completed"), MoveItem("C", "completed")>>,
              FALSE, aon) : aon \in BOOLEAN}
    \cup {BatchReq(NoKey, R_BATCH_PATCH,
                   <<PatchItem("B", "high", "", "s1"), PatchItem("C", "high", "", "")>>,
                   FALSE, aon) : aon \in BOOLEAN}
    \cup {DeleteReq("B")}

ArriveBatchRace(r) ==
    \E q \in BatchRaceRequests : Len(audit) < MaxBatchRaceAudit /\ Arrive(r, q)

BatchRaceNext ==
    \E r \in Slots :
        ArriveBatchRace(r) \/ Hooks(r) \/ BatchMove(r) \/ BatchPatch(r) \/ Delete(r) \/ Refresh(r)

BatchRaceSpec == BatchInit /\ [][BatchRaceNext]_vars

\* ----------------------- moves, labels and deletes of stories and projects
\* B depends on A; A and B belong to p1, C to p2; the sprints belong to p1
LogInit ==
    /\ story = [s \in Stories |->
                  IF s = "B" THEN [Row("p1", "waiting") EXCEPT !.blocked = TRUE]
                  ELSE Row(IF s = "C" THEN "p2" ELSE "p1", "waiting")]
    /\ deps = {Dep(1, "B", "A")}
    /\ nextDepId = 2
    /\ auditUp \in BOOLEAN
    /\ InitSprints
    /\ InitSlots
    /\ InitLists

LogRequests ==
    {MoveReq(NoKey, s, "completed") : s \in {"A", "C"}}
        \cup {DeleteReq("A")}
        \cup {AddLabelReq(NoKey, s, l) : s \in {"A", "C", Missing}, l \in {"bug", Blank}}
        \cup {RemoveLabelReq(s, "bug") : s \in {"A", "C"}}
        \cup {DeleteProjectReq(p, f) : p \in Projects, f \in {"", "true"}}

ArriveLog == \E q \in LogRequests : Idle /\ Len(audit) < MaxLogAudit /\ Arrive("r1", q)

LogNext ==
    \/ ArriveLog
    \/ Hooks("r1")
    \/ Move("r1")
    \/ Delete("r1")
    \/ AddLabel("r1")
    \/ RemoveLabel("r1")
    \/ DeleteProject("r1")
    \/ Refresh("r1")

LogSpec == LogInit /\ [][LogNext]_vars

\* ------------------------------ sprint creates, patches and starts, overlapping
\* two planned sprints in p1
SprintInit ==
    /\ story = [s \in Stories |-> Row("p1", "waiting")]
    /\ deps = {}
    /\ nextDepId = 1
    /\ auditUp = TRUE
    /\ sprint = [s \in Sprints |-> [project |-> "p1", status |-> "planned"]]
    /\ InitSlots
    /\ InitLists

SprintRequests ==
    {CreateSprintReq(NoKey, "p1", "sprint", st) :
        st \in IF Cardinality(DOMAIN sprint) < MaxSprints THEN {"", "active", "done"} ELSE {}}
        \cup {CreateSprintReq(NoKey, "p1", Blank, ""), CreateSprintReq(NoKey, Missing, "sprint", "")}
        \cup {PatchSprintReq(NoKey, s, st) : s \in Sprints, st \in {"", "active", "planned", "closed"}}
        \cup {StartSprintReq(NoKey, s) : s \in Sprints \cup {Missing}}

ArriveSprint(r) == \E q \in SprintRequests : Len(audit) < MaxSprintAudit /\ Arrive(r, q)

SprintNext ==
    \E r \in Slots :
        ArriveSprint(r) \/ Hooks(r) \/ SprintCreate(r) \/ SprintPatch(r) \/ SprintStart(r)

SprintSpec == SprintInit /\ [][SprintNext]_vars

\* ------------------------------ sprint patches, starts and closes, overlapping
CloseRequests ==
    {PatchSprintReq(NoKey, s, st) : s \in Sprints \cup {Missing},
                                    st \in {"", "active", "planned", "closed", "done"}}
        \cup {StartSprintReq(NoKey, s) : s \in Sprints \cup {Missing}}
        \cup {CloseSprintReq(NoKey, s) : s \in Sprints \cup {Missing}}

ArriveClose(r) == \E q \in CloseRequests : Len(audit) < MaxCloseAudit /\ Arrive(r, q)

CloseNext ==
    \E r \in Slots :
        ArriveClose(r) \/ Hooks(r) \/ SprintPatch(r) \/ SprintStart(r) \/ SprintClose(r)

CloseSpec == SprintInit /\ [][CloseNext]_vars

\* the same requests, one at a time
CloseAloneNext ==
    \/ Idle /\ ArriveClose("r1")
    \/ Hooks("r1") \/ SprintPatch("r1") \/ SprintStart("r1") \/ SprintClose("r1")

CloseAloneSpec == SprintInit /\ [][CloseAloneNext]_vars

\* ----------------------------------------- stories assigned to sprints
\* A and B in p1, C not created yet; s1 planned and s2 closed, both of p1
AssignInit ==
    /\ story = [s \in Stories |-> IF s = "C" THEN NoRow ELSE Row("p1", "waiting")]
    /\ deps = {}
    /\ nextDepId = 1
    /\ auditUp = TRUE
    /\ InitSprints
    /\ InitSlots
    /\ InitLists

AssignRequests ==
    {PatchReq(NoKey, id, "", "", "high", sp) : id \in {"A", Missing}, sp \in {"s1", "s2", "null"}}
        \cup {CreateReq(NoKey, p, "", "", sp) : p \in Projects, sp \in {"", "s1", "s2"}}
        \cup {AssignReq(NoKey, sp, ids, dry) :
                 sp \in Sprints \cup {Missing},
                 ids \in {<<>>, <<"A">>, <<"A", "B">>, <<"B", "C">>, <<Missing>>},
                 dry \in BOOLEAN}
        \cup {BatchReq(NoKey, R_BATCH_PATCH, items, FALSE, aon) :
                 items \in {<<PatchItem("A", "high", "", "s2")>>,
                            <<PatchItem("B", "", "", "s1"), PatchItem("A", "", "", "s2"),
                              PatchItem("B", "high", "", "null")>>},
                 aon \in BOOLEAN}

ArriveAssign == \E q \in AssignRequests : Idle /\ Len(audit) < MaxAssignAudit /\ Arrive("r1", q)

AssignNext ==
    \/ ArriveAssign
    \/ Hooks("r1")
    \/ Patch("r1")
    \/ Create("r1")
    \/ Assign("r1")
    \/ BatchPatch("r1")

AssignSpec == AssignInit /\ [][AssignNext]_vars

\* ------------------------------------------ moves along a chain of stories
\* A depends on B and B on C, all waiting; the blocked flags are whatever
\* earlier patches and refreshes left
ChainInit ==
    /\ \E flags \in [Stories -> BOOLEAN] :
          story = [s \in Stories |-> [Row("p1", "waiting") EXCEPT !.blocked = flags[s]]]
    /\ deps = {Dep(1, "A", "B"), Dep(2, "B", "C")}
    /\ nextDepId = 3
    /\ auditUp = TRUE
    /\ InitSprints
    /\ InitSlots
    /\ InitLists

ChainRequests ==
    {MoveReq(NoKey, s, st) : s \in Stories \cup {Missing}, st \in {"completed", "waiting"}}

ArriveChain == \E q \in ChainRequests : Idle /\ Len(audit) < MaxChainAudit /\ Arrive("r1", q)

ChainNext == ArriveChain \/ Hooks("r1") \/ Move("r1") \/ Refresh("r1")

ChainSpec == ChainInit /\ [][ChainNext]_vars

\* --------------------- an add-dependency overlapping a move of its target
MeetRequests == {AddDepReq(NoKey, "A", "B"), MoveReq(NoKey, "B", "completed")}

ArriveMeet(r) == \E q \in MeetRequests : Len(audit) < MaxMeetAudit /\ Arrive(r, q)

MeetNext == \E r \in Slots : ArriveMeet(r) \/ Hooks(r) \/ AddDep(r) \/ Move(r) \/ Refresh(r)

MeetSpec == UnblockInit /\ [][MeetNext]_vars

\* ------------------------------- add-dependency over any graph, cycles included
\* the edges between different stories, numbered
AllEdges == <<<<"A", "B">>, <<"B", "A">>, <<"A", "C">>, <<"C", "A">>, <<"B", "C">>, <<"C", "B">>>>

\* any set of edges between different stories: overlapping adds can leave a
\* cycle behind; every story waiting, blocked when it has an edge
CycleInit ==
    /\ \E chosen \in SUBSET (1..Len(AllEdges)) :
          /\ deps = {Dep(i, AllEdges[i][1], AllEdges[i][2]) : i \in chosen}
          /\ story = [s \in Stories |->
                        [Row("p1", "waiting") EXCEPT
                            !.blocked = \E i \in chosen : AllEdges[i][1] = s]]
    /\ nextDepId = Len(AllEdges) + 1
    /\ auditUp = TRUE
    /\ InitSprints
    /\ InitSlots
    /\ InitLists

CycleRequests == {AddDepReq(NoKey, s, t) : s \in Stories, t \in Stories}

ArriveCycle == \E q \in CycleRequests : Idle /\ Len(audit) < MaxCycleAudit /\ Arrive("r1", q)

CycleNext == ArriveCycle \/ Hooks("r1") \/ AddDep("r1") \/ Refresh("r1")

\* the loop goes on whenever its findMany has returned
CycleSpec == CycleInit /\ [][CycleNext]_vars /\ WF_vars(createsDependencyCycle("r1"))

\* =============================================================== properties
\* the reply object slot r holds
Body(r) == Parse(resp[r].payload)

\* positions of the idempotency records stored under the key, method and
\* route of request q
StoredFor(q) ==
    {i \in 1..Len(idem) :
        idem[i].key = q.key /\ idem[i].method = q.method /\ idem[i].route = q.route}

\* the step in which the request in slot r leaves the preHandler hook
LeavesGuard(r) == pc[r] = "preHandler" /\ pc'[r] # "preHandler"
\* the step in which onSend hands the reply of slot r to the client
Answers(r) == pc[r] = "onSend" /\ pc'[r] = "done"

\* ------------------------------------------------------------------- C1
\* C1: a keyed POST/PATCH whose key, method, route and fingerprint match a
\* stored record goes from the preHandler hook straight to onSend with the
\* stored status and body and the replay mark, and neither that step nor the
\* send changes stories, dependencies, sprints, the audit log or the records;
\* the record itself is what the first execution sent, when that execution
\* ended below 500.
C1_Replay ==
    [][\A r \in Slots :
          /\ ( /\ LeavesGuard(r)
               /\ Guarded(req[r])
               /\ \E i \in StoredFor(req[r]) :
                      idem[i].fingerprint = idempotencyFingerprint(req[r]) )
             => /\ pc'[r] = "onSend"
                /\ \E i \in StoredFor(req[r]) :
                      resp'[r] = [status |-> idem[i].statusCode,
                                  payload |-> idem[i].responseBody,
                                  replay |-> TRUE]
                /\ UNCHANGED <<story, deps, nextDepId, sprint, audit, idem, applied>>
          /\ (Answers(r) /\ resp[r].replay)
             => /\ resp'[r] = resp[r]
                /\ UNCHANGED <<story, deps, nextDepId, sprint, audit, idem, applied>>
          /\ ( /\ Answers(r)
               /\ Guarded(req[r])
               /\ resp[r].status < 500
               /\ StoredFor(req[r]) = {} )
             => idem' = Append(idem, [key |-> req[r].key, method |-> req[r].method,
                                      route |-> req[r].route,
                                      fingerprint |-> idempotencyFingerprint(req[r]),
                                      statusCode |-> resp'[r].status,
                                      responseBody |-> resp'[r].payload,
                                      expiresAt |-> clock + IDEMPOTENCY_TTL_MS])
      ]_vars

\* a stored 404 envelope has been replayed, after some move was carried out
C1_Replayed ==
    \E r \in Slots : pc[r] = "done" /\ resp[r].replay /\ resp[r].status = 404
                     /\ Body(r).shape = "envelope" /\ audit # <<>>

C3_AtMostOnce ==
    \A i, j \in 1..Len(applied) : applied[i] = applied[j] => i = j

\* ------------------------------------------------------------------- C4
\* C4: of two answered requests of one key, method and route that both ran the
\* handler and both tried to store the record, one record is stored, exactly
\* one of the two is answered IDEMPOTENCY_CONFLICT, and neither with a 5xx.
C4_RaceLoserConflict ==
    \A r1, r2 \in Slots :
        ( /\ r1 # r2
          /\ pc[r1] = "done" /\ pc[r2] = "done"
          /\ loc[r1].meta /\ loc[r2].meta
          /\ resp[r1].status < 500 /\ resp[r2].status < 500
          /\ req[r1].key = req[r2].key
          /\ req[r1].method = req[r2].method
          /\ req[r1].route = req[r2].route )
        => /\ Cardinality(StoredFor(req[r1])) = 1
           /\ (Body(r1).code = "IDEMPOTENCY_CONFLICT") # (Body(r2).code = "IDEMPOTENCY_CONFLICT")

\* --------------------------------------------------------------- batches
IsBatch(q) == q.route \in {R_BATCH_MOVE, R_BATCH_PATCH}

\* item i of the batch in slot r passes the handler's validation, judged on
\* the tables as they were when the request arrived
ItemValid(r, i) ==
    LET item == req[r].body.items[i]
        before == snap[r][1]
    IN /\ item.id \in Stories
       /\ before[item.id].life = "live"
       /\ \/ item.sprintId \in {"", "null"}
          \/ /\ item.sprintId \in Sprints
             /\ sprint[item.sprintId].project = before[item.id].project
             /\ sprint[item.sprintId].status # "closed"

\* the Story table holds what item i of the batch in slot r asked for
ItemPersisted(r, i) ==
    LET item == req[r].body.items[i]
        row == story[item.id]
    IN /\ item.status # "" => row.status = item.status
       /\ item.priority # "" => row.priority = item.priority
       /\ item.blocked # "" => row.blocked = (item.blocked = "true")
       /\ item.sprintId \notin {"", "null"} => row.sprintId = item.sprintId

\* ------------------------------------------------------------------- C5
\* C5: when a batch with all_or_nothing=true has been answered 409 because an
\* item failed validation (the reported results end with that item, ok:false),
\* the Story table is what it was when the request arrived.
C5_AllOrNothing ==
    \A r \in Slots :
        ( /\ pc[r] = "done"
          /\ IsBatch(req[r])
          /\ req[r].body.all_or_nothing
          /\ resp[r].status = 409
          /\ Body(r).data # <<>>
          /\ ~Body(r).data[Len(Body(r).data)].ok )
        => story = snap[r][1]

\* ------------------------------------------------------------------- C6
\* C6: a non-empty batch with all_or_nothing=false is answered 200 with one
\* result per item, in input order, ok exactly for the items that pass
\* validation; unless dry_run, every such item is in the Story table.
C6_PartialBatch ==
    \A r \in Slots :
        ( /\ pc[r] = "done"
          /\ IsBatch(req[r])
          /\ ~req[r].body.all_or_nothing
          /\ Len(req[r].body.items) > 0 )
        => /\ resp[r].status = 200
           /\ LET items == req[r].body.items
                  results == Body(r).data[2]
              IN /\ Len(results) = Len(items)
                 /\ \A i \in 1..Len(items) :
                       /\ results[i].id = items[i].id
                       /\ results[i].ok <=> ItemValid(r, i)
                       /\ (ItemValid(r, i) /\ ~req[r].body.dry_run) => ItemPersisted(r, i)

\* a batch move of three items whose second names no story has been answered:
\* the first and the third are applied
C6_MiddleItemFailed ==
    /\ pc["r1"] = "done"
    /\ req["r1"].route = R_BATCH_MOVE
    /\ ~req["r1"].body.all_or_nothing
    /\ ~req["r1"].body.dry_run
    /\ Len(req["r1"].body.items) = 3
    /\ req["r1"].body.items[1].id = "B"
    /\ req["r1"].body.items[2].id = Missing
    /\ req["r1"].body.items[3].id = "C"
    /\ resp["r1"].status = 200
    /\ story["B"].status = "completed"
    /\ story["C"].status = "completed"

\* ------------------------------------------------------------------- C7
\* C7: with requests served one at a time the dependency graph is acyclic in
\* every state, and an answered add-dependency whose target reached its source
\* when it arrived was answered 400 and left the edges as they were.
C7_SequentialAcyclic ==
    /\ Acyclic(deps)
    /\ ( /\ pc["r1"] = "done"
         /\ req["r1"].route = R_DEPS
         /\ snap["r1"][1][req["r1"].id].life = "live"
         /\ Reaches(snap["r1"][2], req["r1"].body.dependsOnStoryId, req["r1"].id) )
       => /\ resp["r1"].status = 400
          /\ deps = snap["r1"][2]

\* an add-dependency that would close a cycle of three edges has been refused
C7_LongCycleRefused ==
    /\ pc["r1"] = "done"
    /\ req["r1"].route = R_DEPS
    /\ resp["r1"].status = 400
    /\ Body("r1").message = "dependency would create a cycle"
    /\ ~Duplicate(req["r1"].body.dependsOnStoryId, req["r1"].id)
    /\ Cardinality(deps) = 2

\* ------------------------------------------------------------------- C8
\* C8: with add-dependency requests overlapping, no stored edge's target
\* reaches the edge's source.
C8_ConcurrentAcyclic ==
    \A s \in Stories : \A d \in deps :
        d.storyId = s => ~Reaches(deps, d.dependsOnStoryId, s)

\* ------------------------------------------------------------------- C9
\* C9: whenever no request is being served, every story's stored blocked flag
\* says whether one of its dependencies targets a story that is not completed.
C9_BlockedFresh ==
    Idle => \A s \in Stories :
                story[s].life = "live" =>
                    (story[s].blocked <=>
                        \E d \in deps : /\ d.storyId = s
                                        /\ story[d.dependsOnStoryId].status # "completed")

\* ------------------------------------------------------------------ C10
\* the dependency rows of s whose target is not completed
OpenDirect(s) == {d \in deps : d.storyId = s /\ story[d.dependsOnStoryId].status # "completed"}

\* C10: the write of a refreshBlocked call stores TRUE when the story has a
\* dependency row whose target is not completed and FALSE when it has none,
\* whatever the targets themselves depend on.
C10_OneHop ==
    [][\A r \in Slots : \A t \in loc[r].tasks :
          ( /\ t.phase = "write"
            /\ t \notin loc'[r].tasks
            /\ story[t.id].life = "live" )
          => (story'[t.id].blocked <=> OpenDirect(t.id) # {})
      ]_vars

\* A depends on completed C, C depends on waiting B, and A's flag has just
\* been recomputed to FALSE
C10_TransitiveIgnored ==
    /\ pc["r1"] = "ad_audit"
    /\ loc["r1"].tasks = {}
    /\ req["r1"].id = "A"
    /\ req["r1"].body.dependsOnStoryId = "C"
    /\ Duplicate("A", "C")
    /\ Duplicate("C", "B")
    /\ story["C"].status = "completed"
    /\ story["B"].status # "completed"
    /\ story["C"].blocked
    /\ ~story["A"].blocked

\* ------------------------------------------------------------------ C11
\* no request is between its arrival and its reply
Quiet == \A r \in Slots : pc[r] \in {"idle", "done"}

\* C11: when an add-dependency has been answered 201 and its story has a
\* dependency whose target is not completed, that story is stored blocked; and
\* when every request has been answered, a story all of whose dependency
\* targets are completed is stored not blocked.
C11_UnblockedByMoves ==
    /\ \A r \in Slots :
          ( /\ pc[r] = "done"
            /\ req[r].route = R_DEPS
            /\ resp[r].status = 201
            /\ OpenDirect(req[r].id) # {} )
          => story[req[r].id].blocked
    /\ Quiet => \A s \in Stories :
                   ( /\ story[s].life = "live"
                     /\ \E d \in deps : d.storyId = s
                     /\ OpenDirect(s) = {} )
                   => ~story[s].blocked

\* ------------------------------------------------------------------ C12
\* the step is the write of a refreshBlocked call for story s
RecomputeOf(s) ==
    \E r \in Slots : \E t \in loc[r].tasks :
        t.phase = "write" /\ t.id = s /\ t \notin loc'[r].tasks

\* C12: a step changes the stored blocked flag of a story only as the write of
\* a refreshBlocked call for it, and a story is created not blocked, whatever
\* the payload says.
C12_SoleWriter ==
    [][\A s \in Stories :
          /\ (story[s].life = "live" /\ story'[s].life = "live"
                /\ story'[s].blocked # story[s].blocked) => RecomputeOf(s)
          /\ (story[s].life = "new" /\ story'[s].life = "live") => ~story'[s].blocked
      ]_vars

\* ------------------------------------------------------------------ C13
\* the ids the traversing client was sent so far, and whether any came twice
Emitted == {trav.emitted[k] : k \in 1..Len(trav.emitted)}
Repeated == \E j, k \in 1..Len(trav.emitted) : j # k /\ trav.emitted[j] = trav.emitted[k]
Finished == trav.phase = "done" /\ trav.reply.status = 200

\* C13: on a table that only grows, the pages from the first one to the one
\* with hasMore=false hold every row that was there when the traversal began
\* exactly once, and no row inserted after that: such a row is on no later
\* page.
C13_InsertOnly ==
    /\ ~Repeated
    /\ Emitted \subseteq trav.began
    /\ Finished => trav.began \subseteq Emitted

\* ------------------------------------------------------------------ C14
\* C14: while stories are written (each write sets updatedAt to now), a
\* traversal of GET /stories sends no story on two pages, and when it ends it
\* has sent every story that was there from its first page on.
C14_StableUnderWrites ==
    /\ \A j, k \in 1..Len(trav.emitted) : trav.emitted[j] = trav.emitted[k] => j = k
    /\ Finished => \A i \in trav.began : i \in Emitted

\* ------------------------------------------------------------------ C15
\* row comes strictly after the position (ts, id) in the order of the list
After(row, ts, id) == row.ts < ts \/ (row.ts = ts /\ row.id < id)
\* the rows of the table that come after the cursor asked with
Remaining(asked) ==
    {i \in Listed : asked = NoCursor \/ After(Item(i), asked[1], asked[3])}
Asked(raw) == IF raw = NoLimit THEN DEFAULT_LIMIT ELSE raw

\* C15: a page answered with 200 holds at most limit rows, rows of the table
\* that come strictly after the cursor, in (timestamp desc, id desc) order;
\* hasMore says that more than limit rows come after the cursor, and
\* nextCursor decodes to the timestamp and id of the last row of the page
\* when hasMore is true and is absent otherwise.
C15_PageShape ==
    [][(trav' # trav /\ trav'.reply.status = 200) =>
          /\ Len(trav'.reply.data) <= Asked(trav'.raw)
          /\ \A k \in 1..Len(trav'.reply.data) :
                 /\ trav'.reply.data[k].id \in Remaining(trav'.asked)
                 /\ trav'.reply.data[k] = Item(trav'.reply.data[k].id)
          /\ \A j, k \in 1..Len(trav'.reply.data) :
                 j < k => After(trav'.reply.data[k], trav'.reply.data[j].ts, trav'.reply.data[j].id)
          /\ trav'.reply.hasMore <=> Cardinality(Remaining(trav'.asked)) > Asked(trav'.raw)
          /\ IF trav'.reply.hasMore
             THEN decodeCursor(trav'.reply.nextCursor)
                    = {[updatedAt |-> trav'.reply.data[Len(trav'.reply.data)].ts,
                        id |-> trav'.reply.data[Len(trav'.reply.data)].id]}
             ELSE trav'.reply.nextCursor = NoCursor]_vars

\* a page asked with a cursor came back full, with more rows to follow
C15_FullLaterPage ==
    /\ trav.reply.status = 200
    /\ trav.asked # NoCursor
    /\ trav.reply.hasMore
    /\ Len(trav.reply.data) = trav.raw

\* ------------------------------------------------------------------ C16
\* the request answered in slot r asked an existing story to depend on itself
SelfDependency(r) ==
    /\ pc[r] = "done"
    /\ req[r].route = R_DEPS
    /\ req[r].body.dependsOnStoryId = req[r].id
    /\ snap[r][1][req[r].id].life = "live"

\* C16 as claimed: a request that makes a story depend on itself is answered
\* 400 with error code VALIDATION_ERROR and stores no dependency.
C16_SelfValidationError ==
    \A r \in Slots :
        SelfDependency(r) =>
            /\ resp[r].status = 400
            /\ Body(r).shape = "envelope" /\ Body(r).code = "VALIDATION_ERROR"
            /\ deps = snap[r][2]

\* C16, amended: a request that makes a story depend on itself is answered
\* 400 with error code BAD_REQUEST and stores no dependency.
C16_SelfBadRequest ==
    \A r \in Slots :
        SelfDependency(r) =>
            /\ resp[r].status = 400
            /\ Body(r).shape = "envelope" /\ Body(r).code = "BAD_REQUEST"
            /\ deps = snap[r][2]

\* a self-dependency was refused while other dependencies were stored
C16_SelfRefused ==
    \E r \in Slots : SelfDependency(r) /\ resp[r].status = 400 /\ deps # {}

\* ------------------------------------------------------------------ C17
\* the request in slot r is an add-dependency request that has been answered
AddAnswered(r) == pc[r] = "done" /\ req[r].route = R_DEPS
\* the dependency rows of E for the pair the request in slot r names
PairRows(E, r) ==
    {d \in E : d.storyId = req[r].id /\ d.dependsOnStoryId = req[r].body.dependsOnStoryId}

\* no two dependency rows for one ordered pair
C17_OneRowPerPair ==
    \A d, e \in deps :
        (d.storyId = e.storyId /\ d.dependsOnStoryId = e.dependsOnStoryId) => d = e

\* an add for a pair that was stored when it arrived is answered 409 CONFLICT
C17_DuplicateConflict ==
    \A r \in Slots :
        (AddAnswered(r) /\ PairRows(snap[r][2], r) # {}) =>
            resp[r].status = 409 /\ Body(r).code = "CONFLICT"

\* two overlapping adds of one pair that neither found stored nor closing a
\* cycle: one is answered 201, the other 409
C17_OneWinner ==
    (/\ \A r \in Slots : /\ AddAnswered(r)
                          /\ PairRows(snap[r][2], r) = {}
                          /\ ~Reaches(snap[r][2], req[r].body.dependsOnStoryId, req[r].id)
     /\ req["r1"] = req["r2"])
        => {resp[r].status : r \in Slots} = {201, 409}

\* C17: an ordered pair has at most one dependency row; an add for a pair
\* that is already stored is answered 409 CONFLICT; of two overlapping adds of
\* one pair one is answered 201 and the other 409; no add is answered 5xx.
C17_PairOnce ==
    /\ C17_OneRowPerPair
    /\ C17_DuplicateConflict
    /\ C17_OneWinner
    /\ \A r \in Slots : AddAnswered(r) => resp[r].status < 500

\* ------------------------------------------------------------------ C18
\* the stories at both ends of every dependency row are of one project
EdgesWithinProject ==
    \A d \in deps : story[d.storyId].project = story[d.dependsOnStoryId].project

\* the request answered in slot r asked for a dependency on a story of
\* another project
CrossProject(r) ==
    /\ AddAnswered(r)
    /\ req[r].body.dependsOnStoryId \in Stories
    /\ story[req[r].id].project # story[req[r].body.dependsOnStoryId].project

\* C18: in every state reached the two stories of every dependency row are of
\* the same project; an add-dependency request naming a target of another
\* project is answered 400 and stores no row; no step changes the project of
\* a story.
C18_WithinProject ==
    [][/\ EdgesWithinProject'
       /\ \A r \in Slots : CrossProject(r)' => (resp'[r].status = 400 /\ PairRows(deps, r)' = {})
       /\ \A s \in Stories :
              (story[s].life = "live" /\ story'[s].life = "live")
                  => story'[s].project = story[s].project]_vars

\* an add naming a target of another project was refused, after a dependency
\* was stored and a patch naming another project was carried out
C18_CrossRefused ==
    /\ \E r \in Slots : CrossProject(r) /\ resp[r].status = 400
    /\ deps # {}
    /\ \E k \in 1..Len(audit) : audit[k].eventType = "story.updated"

\* ------------------------------------------------------------------ C19
\* the request in slot r is a POST or PATCH with a key
Keyed(r) == req[r].method \in {"POST", "PATCH"} /\ req[r].key \in Keys

\* C19: when the reply to a request goes out, a record is stored exactly if
\* the request is a keyed POST or PATCH whose key had no record and the
\* status is below 500, 4xx included, and the record holds that reply; after
\* a 5xx reply the key still has no record, and a request whose key has no
\* record, such as the same request sent again, enters its handler.
C19_StoredBelow500 ==
    [][\A r \in Slots :
          /\ Answers(r) =>
                /\ Len(idem') = Len(idem) + 1
                      <=> (Keyed(r) /\ StoredFor(req[r]) = {} /\ resp[r].status < 500)
                /\ Len(idem') = Len(idem) + 1 =>
                      /\ idem'[Len(idem')].key = req[r].key
                      /\ idem'[Len(idem')].statusCode = resp'[r].status
                      /\ idem'[Len(idem')].responseBody = resp'[r].payload
                /\ Len(idem') # Len(idem) + 1 => idem' = idem
                /\ (Keyed(r) /\ StoredFor(req[r]) = {} /\ resp[r].status >= 500)
                      => StoredFor(req[r])' = {}
          /\ (Keyed(r) /\ StoredFor(req[r]) = {} /\ LeavesGuard(r))
                => (pc'[r] = Entry(req[r]) /\ ~resp'[r].replay) ]_vars

\* a keyed move answered 500 was sent again: the second one ran its handler
\* and its 404 reply was stored
C19_RetriedAfter500 ==
    \E r, o \in Slots :
        /\ pc[o] = "done" /\ resp[o].status = 500 /\ Keyed(o)
        /\ pc[r] = "done" /\ req[r] = req[o] /\ resp[r].status = 404 /\ ~resp[r].replay
        /\ \E i \in StoredFor(req[r]) : idem[i].statusCode = 404

\* ------------------------------------------------------------------ C20
\* the request in slot r has another method than POST or PATCH, or no key,
\* or a key of spaces only
Unkeyed(r) == req[r].method \notin {"POST", "PATCH"} \/ req[r].key \in {NoKey, Blank}

C21_OneRecordPerKey ==
    \A i, j \in 1..Len(idem) :
        (idem[i].key = idem[j].key /\ idem[i].method = idem[j].method
            /\ idem[i].route = idem[j].route) => i = j

\* two requests with one key both passed the lookup without a record and
\* both were answered, with different payloads, and one record is stored
C21_BothPassedLookup ==
    /\ \A r \in Slots : pc[r] = "done" /\ loc[r].meta /\ resp[r].status < 500
    /\ req["r1"].key = req["r2"].key
    /\ req["r1"].body # req["r2"].body
    /\ Len(idem) = 1

\* ------------------------------------------------------------------ C22
\* the results a batch reply carries: in data.results of a 200, in
\* error.details.results of a 409
Results(r) == IF resp[r].status = 200 THEN Body(r).data[2] ELSE Body(r).data

\* C22: while a batch move or batch patch with dry_run=true is served, with
\* either value of all_or_nothing, no step changes a story row (its blocked
\* flag included), a dependency or the audit log; its reply lists, in input
\* order, an {id, ok} result for each item it looked at, ok exactly for the
\* valid ones, and for every item when it is a 200.
C22_DryRunWritesNothing ==
    [][\A r \in Slots :
          (IsBatch(req[r]) /\ req[r].body.dry_run) =>
              /\ story' = story /\ deps' = deps /\ audit' = audit
              /\ (Answers(r) /\ Len(req[r].body.items) > 0) =>
                    /\ resp'[r].status \in {200, 409}
                    /\ Len(Results(r)') <= Len(req[r].body.items)
                    /\ resp'[r].status = 200 => Len(Results(r)') = Len(req[r].body.items)
                    /\ \A i \in 1..Len(Results(r)') :
                          /\ Results(r)'[i].id = req[r].body.items[i].id
                          /\ Results(r)'[i].ok <=> ItemValid(r, i) ]_vars

\* a dry run of a batch patch with all_or_nothing=true was answered 200 for
\* two valid items, one of which names a sprint and one the blocked flag
C22_DryRunAnswered ==
    /\ pc["r1"] = "done"
    /\ req["r1"].route = R_BATCH_PATCH
    /\ req["r1"].body.dry_run
    /\ req["r1"].body.all_or_nothing
    /\ resp["r1"].status = 200
    /\ \E i, j \in 1..Len(req["r1"].body.items) :
          /\ req["r1"].body.items[i].sprintId = "s1"
          /\ req["r1"].body.items[j].blocked = "false"

\* ------------------------------------------------------------------ C23
\* the positions of the items of the batch in slot r that fail validation
Invalid(r) == {i \in 1..Len(req[r].body.items) : ~ItemValid(r, i)}
FirstInvalid(r) == CHOOSE i \in Invalid(r) : \A j \in Invalid(r) : i <= j

C24_AlwaysAnswered2xx ==
    \A r \in Slots :
        ( /\ pc[r] = "done"
          /\ IsBatch(req[r])
          /\ ~req[r].body.all_or_nothing
          /\ Len(req[r].body.items) > 0 )
        => /\ resp[r].status \in 200..299
           /\ Len(Body(r).data[2]) = Len(req[r].body.items)
           /\ \A i \in 1..Len(req[r].body.items) :
                 Body(r).data[2][i].id = req[r].body.items[i].id

\* ------------------------------------------------------------------ C25
\* POST /api/v1/stories/:id/move run alone from the stories st: the status is
\* written, then every story with an edge to id gets its blocked flag
\* recomputed
moveAlone(st, id, status) ==
    LET moved == [st EXCEPT ![id].status = status]
    IN  [s \in DOMAIN st |->
            IF s \in Dependents(id) /\ moved[s].life = "live"
            THEN [moved[s] EXCEPT !.blocked =
                     \E d \in deps : d.storyId = s
                                     /\ moved[d.dependsOnStoryId].status # "completed"]
            ELSE moved[s]]

\* the single move requests of the items, one after another in input order
RECURSIVE moveEach(_, _)
moveEach(st, items) ==
    IF items = <<>> THEN st
    ELSE moveEach(moveAlone(st, Head(items).id, Head(items).status), Tail(items))

AtLogAudit(r) == pc[r] \in {"ad_audit", "rd_audit", "ds_audit"} /\ loc[r].tasks = {} /\ ~loc[r].failed

C27_AuditAppendOnly ==
    [][/\ Len(audit') >= Len(audit)
       /\ SubSeq(audit', 1, Len(audit)) = audit]_vars

\* a project was deleted with its stories while the log held an event of one
\* of them, and the event is still there
C27_EventOutlivesProject ==
    /\ pc["r1"] = "done"
    /\ req["r1"].route = R_PROJECT
    /\ resp["r1"].status = 200
    /\ req["r1"].id \notin projects
    /\ story["C"].life = "gone"
    /\ Len(audit) >= 1
    /\ audit[1] = AuditRow("story.moved", "C")

\* ------------------------------------------------------------------ C28
\* the request in slot r has changed a story, a dependency, a label or a
\* project since it arrived
Changed(r) ==
    \/ <<story, deps, labels>> # <<snap[r][1], snap[r][2], snap[r][4]>>
    \/ req[r].route = R_PROJECT /\ req[r].id \notin projects

\* one event for a request, one per applied item for a batch
EventsDue(r) ==
    IF IsBatch(req[r])
    THEN Cardinality({i \in 1..Len(Results(r)) : Results(r)[i].ok})
    ELSE 1

\* C28: while the audit store accepts writes, a request answered 200 or 201
\* that changed domain data has appended exactly one audit event, a batch one
\* per applied item; a label added or removed counts as such a change.
C28_OneEventPerChange ==
    \A r \in Slots :
        ( /\ pc[r] = "done"
          /\ resp[r].status \in {200, 201}
          /\ Changed(r)
          /\ auditUp )
        => Len(audit) = Len(snap[r][3]) + EventsDue(r)

\* ------------------------------------------------------------------ C29
\* C29: when a batch with all_or_nothing=true has failed (409), the audit log
\* is the log the batch found: it holds no event for any item of the batch.
C29_FailedBatchLeavesNoEvent ==
    \A r \in Slots :
        ( /\ pc[r] = "done"
          /\ IsBatch(req[r])
          /\ req[r].body.all_or_nothing
          /\ resp[r].status = 409 )
        => audit = snap[r][3]

\* ------------------------------------------------------------------ C30
\* C30: in every state reached by sprint create, sprint patch and sprint
\* start requests, overlapping ones included, no project has two sprints
\* with status active.
C30_OneActiveSprint ==
    \A p \in Projects : Cardinality(ActiveSprints(p)) <= 1

\* ------------------------------------------------------------------ C31
\* the sprint is closed
Closed(sprintId) == sprintId \in DOMAIN sprint /\ sprint[sprintId].status = "closed"

\* the request in slot r would, were the sprint not closed, put a story into
\* the closed sprint it names: a story create for an existing project of the
\* sprint, a patch of an existing story of the sprint's project, an
\* assignment of a non-empty list
WouldAssignToClosed(r) ==
    \/ /\ req[r].route = R_STORIES
       /\ Closed(req[r].body.sprintId)
       /\ req[r].body.projectId = sprint[req[r].body.sprintId].project
       /\ req[r].body.projectId \in projects
    \/ /\ req[r].route = R_STORY /\ req[r].method = "PATCH"
       /\ Closed(req[r].body.sprintId)
       /\ Live(req[r].id)
       /\ story[req[r].id].project = sprint[req[r].body.sprintId].project
    \/ /\ req[r].route = R_ASSIGN
       /\ Closed(req[r].id)
       /\ req[r].body.storyIds # <<>>

\* the items of the batch patch in slot r that name a closed sprint
ClosedItems(r) ==
    IF req[r].route = R_BATCH_PATCH
    THEN {i \in 1..Len(req[r].body.items) : Closed(req[r].body.items[i].sprintId)}
    ELSE {}

\* C31: no step puts a story into a sprint that is closed; a story create, a
\* story patch or a stories:assign that would do so is answered 409; an item
\* of a batch patch that would do so is never reported ok, and is reported
\* ok:false whenever the batch goes through all its items (a 200).
C31_ClosedSprintRejects ==
    [][\A r \in Slots :
          /\ \A s \in Stories :
                story'[s].sprintId # story[s].sprintId => ~Closed(story'[s].sprintId)
          /\ (Answers(r) /\ WouldAssignToClosed(r)) => resp'[r].status = 409
          /\ (Answers(r) /\ ClosedItems(r) # {} /\ resp[r].status \in {200, 409}) =>
                /\ \A i \in ClosedItems(r) : i <= Len(Results(r)) => ~Results(r)[i].ok
                /\ resp[r].status = 200 => Len(Results(r)) = Len(req[r].body.items)]_vars

\* a batch patch went through its three items: the one naming the closed
\* sprint is reported ok:false, the others ok, and no story is in that sprint
C31_ClosedItemRefused ==
    /\ pc["r1"] = "done"
    /\ req["r1"].route = R_BATCH_PATCH
    /\ resp["r1"].status = 200
    /\ Len(Results("r1")) = 3
    /\ Results("r1")[1].ok /\ ~Results("r1")[2].ok /\ Results("r1")[3].ok
    /\ \A s \in Stories : story[s].sprintId # "s2"

\* ------------------------------------------------------------------ C32
\* the stories that had an edge to the story of the request in slot r when
\* the request arrived
DependedOn(r) == {d.storyId : d \in {e \in snap[r][2] : e.dependsOnStoryId = req[r].id}}

\* C32: when DELETE /api/v1/stories/:id has answered 200, no dependency edge
\* has the story as source or as target, every other edge is still there, and
\* each story that depended on it has the blocked flag its remaining edges
\* give: FALSE when none of them leads to a story that is not completed.
C32_DeleteCascades ==
    ( /\ pc["r1"] = "done"
      /\ req["r1"].route = R_STORY
      /\ req["r1"].method = "DELETE"
      /\ resp["r1"].status = 200 )
    => /\ story[req["r1"].id].life = "gone"
       /\ deps = {d \in snap["r1"][2] : req["r1"].id \notin {d.storyId, d.dependsOnStoryId}}
       /\ \A s \in DependedOn("r1") : story[s].blocked <=> OpenDirect(s) # {}

\* A depended on waiting B only and was blocked; B was deleted, the edge is
\* gone and A is not blocked
C32_UnblockedByDelete ==
    /\ pc["r1"] = "done"
    /\ req["r1"].route = R_STORY
    /\ req["r1"].method = "DELETE"
    /\ req["r1"].id = "B"
    /\ resp["r1"].status = 200
    /\ snap["r1"][1]["A"].blocked
    /\ \E d \in snap["r1"][2] : d.storyId = "A" /\ d.dependsOnStoryId = "B"
    /\ ~story["A"].blocked

\* ------------------------------------------------------------------ C33
\* C33: a step taken while a move of story S is served changes the blocked
\* flag of no story but those with a dependency edge to S itself: not S's
\* own, and not that of a story that reaches S only through other stories.
C33_OnlyDirectDependents ==
    [][\A s \in Stories :
          story'[s].blocked # story[s].blocked
          => /\ req["r1"].route = R_MOVE
             /\ \E d \in deps : d.storyId = s /\ d.dependsOnStoryId = req["r1"].id]_vars

\* C was moved to completed: B, which depends on C, went from blocked to not
\* blocked; A, which reaches C through B only, kept a flag that a
\* recomputation would have changed, and C kept its own
C33_ChainUntouched ==
    /\ pc["r1"] = "done"
    /\ req["r1"].route = R_MOVE
    /\ req["r1"].id = "C"
    /\ resp["r1"].status = 200
    /\ snap["r1"][1]["B"].blocked /\ ~story["B"].blocked
    /\ ~story["A"].blocked /\ ~snap["r1"][1]["A"].blocked
    /\ story["B"].status # "completed"
    /\ story["C"].blocked /\ snap["r1"][1]["C"].blocked

\* ------------------------------------------------------------------ C34
\* C34: when the add-dependency A -> B and the move of B to completed have
\* both been answered, in whatever order their reads and writes fell, A's
\* stored blocked flag is the value its edges give in that state: FALSE when
\* B, its only dependency, is completed.
C34_AddMeetsMove ==
    ( /\ Quiet
      /\ \E d \in deps : d.storyId = "A" )
    => (story["A"].blocked <=> OpenDirect("A") # {})

\* ------------------------------------------------------------------ C35
\* a turn of the loop of the cycle check in slot r that leaves it in the loop
Turn(r) == pc[r] = "ad_cycle" /\ pc'[r] = "ad_cycle" /\ loc'[r] # loc[r]

\* C35: on every set of edges, one that holds a cycle included, the cycle
\* check comes to an end; a turn of its loop either drops a story already
\* visited from the queue without reading its edges, or marks the story
\* visited and appends its outgoing edges, so that no story is expanded twice.
C35_CheckTerminates ==
    /\ [][\A r \in Slots :
             Turn(r) =>
                LET current == Head(loc[r].queue)
                IN IF current \in loc[r].visited
                   THEN /\ loc'[r].queue = Tail(loc[r].queue)
                        /\ loc'[r].visited = loc[r].visited
                   ELSE /\ loc'[r].visited = loc[r].visited \cup {current}
                        /\ Len(loc'[r].queue) = Len(loc[r].queue) - 1
                              + Cardinality({d \in deps : d.storyId = current})]_vars
    /\ \A r \in Slots : (pc[r] = "ad_cycle") ~> (pc[r] # "ad_cycle")

\* the check of C -> A ran over the cycle A -> B -> A, visited both stories
\* and returned false
C35_RanOverCycle ==
    /\ pc["r1"] = "ad_create"
    /\ req["r1"].id = "C"
    /\ req["r1"].body.dependsOnStoryId = "A"
    /\ Duplicate("A", "B") /\ Duplicate("B", "A")
    /\ loc["r1"].visited = {"A", "B"}
    /\ loc["r1"].queue = <<>>

\* ------------------------------------------------------------------ C36
\* C36: a sprint whose stored status is closed keeps that status in every
\* later state, whatever sprint patch, start and close requests are served.
C36_ClosedStaysClosed ==
    [][\A s \in DOMAIN sprint :
          sprint[s].status = "closed" => sprint'[s].status = "closed"]_vars

\* ------------------------------------------------------------------ C37
\* the records stored under the key of q with its method and route pattern
SameTriple(q) ==
    {i \in 1..Len(idem) : /\ idem[i].key = q.key
                          /\ idem[i].method = q.method
                          /\ idem[i].route = q.route}

\* the records stored under the key of q for another path parameter or body
OtherCall(q) ==
    {i \in SameTriple(q) : idem[i].fingerprint # <<q.method, q.route, q.id, q.depId, q.body>>}

\* the reply in slot r is the idempotency conflict
Conflict(r) == resp[r].status = 409 /\ Body(r).code = "IDEMPOTENCY_CONFLICT"

Expired(i) == clock > idem[i].expiresAt

\* C38: no step removes or changes a stored idempotency record, and a keyed
\* request that finds a record under its key, method and route is answered
\* from it, replayed when the fingerprints agree and refused with
\* IDEMPOTENCY_CONFLICT when they differ, whether or not the record's
\* expiresAt has passed.
C38_ExpiryIgnored ==
    [][/\ \A i \in 1..Len(idem) : i <= Len(idem') /\ idem'[i] = idem[i]
       /\ \A r \in Slots :
             ( /\ pc[r] = "preHandler" /\ pc'[r] # "preHandler"
               /\ SameTriple(req[r]) # {} )
             => \E i \in SameTriple(req[r]) :
                   /\ pc'[r] = "onSend"
                   /\ IF idem[i].fingerprint =
                           <<req[r].method, req[r].route, req[r].id, req[r].depId, req[r].body>>
                      THEN resp'[r] = [status |-> idem[i].statusCode,
                                       payload |-> idem[i].responseBody,
                                       replay |-> TRUE]
                      ELSE Conflict(r)' /\ ~resp'[r].replay]_vars

\* a move of B is answered with the reply stored more than 48 hours earlier,
\* although B has been moved back in the meantime
C38_ReplayedAfterExpiry ==
    \E r \in Slots :
       /\ pc[r] = "onSend" /\ resp[r].replay /\ resp[r].status = 200
       /\ \E i \in SameTriple(req[r]) : Expired(i)
       /\ req[r].id = "B" /\ req[r].body.status = "completed"
       /\ story["B"].status = "waiting"

====
